---- MODULE Spec2Model ----
(***************************************************************************)
(* The pricing decision engine of the repricing platform:                  *)
(*   pricing_rules/engine.py  PricingRulesEngine  (rule path + enforcer)   *)
(*   pricing_ml/engine.py     MLPricingEngine     (constrained optimizer)  *)
(*                                                                         *)
(* Money and ratios are exact rationals <<n, d>> (d > 0, lowest terms).    *)
(* Python's Decimal (28 significant digits) and float are modelled by the  *)
(* exact value they approximate.                                           *)
(***************************************************************************)
EXTENDS Integers, Sequences, FiniteSets, TLC

----------------------------------------------------------------------------
(* Exact rational arithmetic standing for Decimal / float arithmetic.      *)

RECURSIVE GCD(_, _)
GCD(a, b) == IF b = 0 THEN a ELSE GCD(b, a % b)

IAbs(x) == IF x < 0 THEN -x ELSE x

Rat(n, d) ==
    LET s == IF d < 0 THEN -1 ELSE 1
        g == GCD(IAbs(n), IAbs(d))
    IN  <<(s * n) \div g, (s * d) \div g>>

R(n) == <<n, 1>>
\* Sums, products and comparisons cancel common factors before they
\* multiply, which keeps the intermediate integers small.
RAdd(a, b) ==
    LET g == GCD(a[2], b[2])
    IN  Rat(a[1] * (b[2] \div g) + b[1] * (a[2] \div g), (a[2] \div g) * b[2])
RSub(a, b) ==
    LET g == GCD(a[2], b[2])
    IN  Rat(a[1] * (b[2] \div g) - b[1] * (a[2] \div g), (a[2] \div g) * b[2])
RMul(a, b) ==
    LET g == GCD(IAbs(a[1]), b[2])
        h == GCD(IAbs(b[1]), a[2])
    IN  Rat((a[1] \div g) * (b[1] \div h), (a[2] \div h) * (b[2] \div g))
RDiv(a, b) == Rat(a[1] * b[2], a[2] * b[1])
RLt(a, b) ==
    LET g == GCD(a[2], b[2])
    IN  a[1] * (b[2] \div g) < b[1] * (a[2] \div g)
RLe(a, b) ==
    LET g == GCD(a[2], b[2])
    IN  a[1] * (b[2] \div g) <= b[1] * (a[2] \div g)
RAbs(a) == <<IAbs(a[1]), a[2]>>
RIsZero(a) == a[1] = 0
RMin(a, b) == IF RLt(b, a) THEN b ELSE a
RMax(a, b) == IF RLt(a, b) THEN b ELSE a

RECURSIVE RSeqMin(_)
RSeqMin(s) == IF Len(s) = 1 THEN s[1] ELSE RMin(s[1], RSeqMin(Tail(s)))
RECURSIVE RSeqMax(_)
RSeqMax(s) == IF Len(s) = 1 THEN s[1] ELSE RMax(s[1], RSeqMax(Tail(s)))
RECURSIVE RSeqSum(_)
RSeqSum(s) == IF s = <<>> THEN R(0) ELSE RAdd(s[1], RSeqSum(Tail(s)))

\* Python's None, for a variable holding an object.
None == [none |-> TRUE]

----------------------------------------------------------------------------
(* Bounds of the model.                                                    *)

MaxRules == 2          \* rules stored for the organization
MaxConstraints == 2    \* safety constraints stored for the organization

----------------------------------------------------------------------------
(* PricingContext: the immutable input snapshot of one evaluation.         *)

PricingContext(pid, price, cost, inv, comps, mkt, bb, custom) ==
    [product_id |-> pid, current_price |-> price, cost |-> cost,
     inventory_level |-> inv, competitor_prices |-> comps,
     sales_velocity |-> Rat(26, 5), marketplace |-> mkt,
     category |-> "electronics", brand |-> "test_brand",
     seasonality_factor |-> Rat(11, 10), demand_score |-> Rat(3, 4),
     buy_box_status |-> bb, margin_target |-> Rat(1, 5),
     custom_attributes |-> custom]

NoAttributes == [x \in {} |-> None]

\* The contexts a caller supplies (current_price > 0, cost >= 0).
Contexts ==
    { PricingContext("P-1", R(30), R(15), 100, <<R(19), R(32)>>, "amazon", "won",
                     NoAttributes),
      PricingContext("P-2", R(20), R(15), 0, <<>>, "flipkart", "lost",
                     [x \in {"supplier_id"} |-> [t |-> "str", s |-> "SUP-001"]]) }

----------------------------------------------------------------------------
(* Expressions of rule conditions and action values.  The source hands the *)
(* text to eval(); the model evaluates the same text as a closed syntax    *)
(* tree over the same variable map: "" (empty), an atom, or one binary     *)
(* operation over two atoms.                                               *)

Num(q) == [t |-> "num", v |-> q]
Bool(b) == [t |-> "bool", b |-> b]
Var(name) == [k |-> "var", name |-> name]
Lit(q) == [k |-> "lit", v |-> Num(q)]
Bin(op, l, r) == [k |-> "bin", op |-> op, l |-> l, r |-> r]
Empty == [k |-> "empty"]

Ok(v) == [ok |-> TRUE, v |-> v]
Raise(e) == [ok |-> FALSE, error |-> e]

\* Python's numeric view of a value: bool is an int; a str is no number.
IsNumeric(v) == v.t \in {"num", "bool"}
AsNum(v) == IF v.t = "bool" THEN (IF v.b THEN R(1) ELSE R(0)) ELSE v.v

\* Python truthiness of an evaluated value.
Truthy(v) ==
    CASE v.t = "bool" -> v.b
      [] v.t = "num" -> ~RIsZero(v.v)
      [] OTHER -> v.s # ""

EvalAtom(a, env) ==
    IF a.k = "lit" THEN Ok(a.v)
    ELSE IF a.name \in DOMAIN env THEN Ok(env[a.name])
    ELSE Raise("NameError")

EvalBin(op, x, y) ==
    IF ~(IsNumeric(x) /\ IsNumeric(y)) THEN Raise("TypeError")
    ELSE LET a == AsNum(x)
             b == AsNum(y)
         IN  CASE op = "<" -> Ok(Bool(RLt(a, b)))
               [] op = ">" -> Ok(Bool(RLt(b, a)))
               [] op = "+" -> Ok(Num(RAdd(a, b)))
               [] op = "-" -> Ok(Num(RSub(a, b)))
               [] op = "*" -> Ok(Num(RMul(a, b)))
               [] op = "/" -> IF RIsZero(b) THEN Raise("ZeroDivisionError")
                              ELSE Ok(Num(RDiv(a, b)))

\* eval(expression, {"__builtins__": {}}, eval_context)
Eval(e, env) ==
    IF e.k \in {"lit", "var"} THEN EvalAtom(e, env)
    ELSE LET x == EvalAtom(e.l, env)
             y == EvalAtom(e.r, env)
         IN  IF ~x.ok THEN x
             ELSE IF ~y.ok THEN y
             ELSE EvalBin(e.op, x.v, y.v)

----------------------------------------------------------------------------
(* The configuration store: strategies, rule sets, rules, constraints.     *)

Organization == "org1"

PricingStrategy(id, org, type, active, default) ==
    [id |-> id, organization |-> org, strategy_type |-> type,
     is_active |-> active, is_default |-> default]

\* Two states of the strategy table: with and without an active default.
StrategyTables ==
    { { PricingStrategy("s1", "org1", "rule_based", TRUE, TRUE),
        PricingStrategy("s3", "org1", "hybrid", FALSE, FALSE),
        PricingStrategy("s4", "org2", "rule_based", TRUE, TRUE) },
      { PricingStrategy("s1", "org1", "rule_based", FALSE, TRUE),
        PricingStrategy("s2", "org1", "ml_based", TRUE, FALSE),
        PricingStrategy("s4", "org2", "rule_based", TRUE, TRUE) } }

\* The strategy selectors a caller passes; NoId is the falsy selector (None),
\* which asks for the default strategy.
NoId == ""
StrategyIds == {NoId, "s2", "s3", "s4", "s9"}

RuleSet(name, strategy, priority, conditions, active) ==
    [name |-> name, strategy |-> strategy, priority |-> priority,
     conditions |-> conditions, is_active |-> active]

NoConditions == [x \in {} |-> None]

RuleSets ==
    { RuleSet("rs1", "s1", 2, NoConditions, TRUE),
      RuleSet("rs2", "s1", 1, [x \in {"marketplace"} |-> {"amazon"}], TRUE),
      RuleSet("rs3", "s2", 1, [x \in {"price_min"} |-> R(25)], TRUE),
      RuleSet("rs4", "s1", 1, NoConditions, FALSE) }

PricingRule(name, rule_set, priority, active, condition, action_type, action_value, metadata) ==
    [name |-> name, rule_set |-> rule_set, priority |-> priority,
     is_active |-> active, condition |-> condition, action_type |-> action_type,
     action_value |-> action_value, metadata |-> metadata]

NoMetadata == [x \in {} |-> None]
Weight(w) == [x \in {"weight"} |-> w]

\* The rules an organization may have stored: any MaxRules of the first six,
\* next to the six rows of FixedRules.
RuleCatalog ==
    { PricingRule("undercut", "rs1", 1, TRUE,
                  Bin("<", Var("competitor_min"), Var("current_price")),
                  "decrease_percentage", Lit(R(50)), NoMetadata),
      PricingRule("match", "rs2", 1, TRUE, Empty,
                  "set_price", Var("competitor_min"), Weight(Num(Rat(1, 2)))),
      PricingRule("broken_cond", "rs1", 1, TRUE,
                  Bin(">", Var("unknown_var"), Lit(R(1))),
                  "set_price", Lit(R(10)), NoMetadata),
      PricingRule("broken_action", "rs1", 2, TRUE, Empty,
                  "increase_amount", Bin("/", Var("cost"), Var("inventory")),
                  NoMetadata),
      PricingRule("bad_weight", "rs2", 2, TRUE, Empty,
                  "undercut_competitor", Var("competitor_max"),
                  Weight([t |-> "str", s |-> "high"])),
      PricingRule("promo", "rs1", 1, TRUE, Empty,
                  "increase_amount", Lit(R(5)), Weight(Num(Rat(-1, 2)))) }

FixedRules ==
    { PricingRule("inactive", "rs1", 1, FALSE, Empty,
                  "set_price", Lit(R(1)), NoMetadata),
      PricingRule("dormant", "rs4", 1, TRUE, Empty,
                  "increase_percentage", Lit(R(10)), NoMetadata),
      PricingRule("clearance", "rs3", 1, TRUE, Empty,
                  "decrease_amount", Lit(R(5)), NoMetadata),
      PricingRule("zero_price", "rs3", 2, TRUE, Empty,
                  "set_price", Lit(R(0)), Weight(Num(Rat(1, 2)))),
      PricingRule("no_value", "rs3", 3, TRUE, Empty,
                  "increase_amount", Empty, Weight(Num(Rat(1, 2)))),
      PricingRule("odd_type", "rs3", 4, TRUE, Empty,
                  "round_to_cents", Lit(R(3)), Weight(Num(Rat(1, 2)))) }

SafetyConstraint(name, strategy, type, threshold, action, active) ==
    [name |-> name, strategy |-> strategy, constraint_type |-> type,
     threshold |-> threshold, action |-> action, is_active |-> active]

\* The safety constraints an organization may have stored: any MaxConstraints
\* of the first seven, declared in any order, before the two of FixedConstraints.
ConstraintCatalog ==
    { SafetyConstraint("margin_block", "s1", "min_margin", Rat(3, 10), "block", TRUE),
      SafetyConstraint("margin_adjust", "s1", "min_margin", Rat(3, 10), "adjust", TRUE),
      SafetyConstraint("margin_all", "s1", "min_margin", R(1), "warn", TRUE),
      SafetyConstraint("change_adjust", "s1", "max_price_change", Rat(1, 10), "adjust", TRUE),
      SafetyConstraint("floor_adjust", "s1", "min_price", R(25), "adjust", TRUE),
      SafetyConstraint("cap_adjust", "s1", "max_price", R(18), "adjust", TRUE),
      SafetyConstraint("cap_warn", "s1", "max_price", R(25), "warn", TRUE) }

FixedConstraints ==
    << SafetyConstraint("cap_off", "s1", "max_price", R(5), "block", FALSE),
       SafetyConstraint("ml_cap", "s2", "max_price", R(18), "block", TRUE) >>

----------------------------------------------------------------------------
(* PricingRulesEngine: strategy lookup and rule matching.                  *)

\* Mutant: the lookup does not filter on is_active.
_get_strategy_any(table, strategy_id) ==
    LET byId == {s \in table : s.id = strategy_id /\ s.organization = Organization}
        defaults == {s \in table : s.organization = Organization /\ s.is_default}
        found == IF strategy_id # NoId THEN byId ELSE defaults
    IN  IF found = {} THEN None ELSE CHOOSE s \in found : TRUE

\* PricingStrategy.objects.get(id, organization, is_active) /
\* .filter(organization, is_active, is_default).first(); None when absent.
_get_strategy(table, strategy_id) ==
    LET byId == {s \in table : /\ s.id = strategy_id
                               /\ s.organization = Organization
                               /\ s.is_active}
        defaults == {s \in table : /\ s.organization = Organization
                                   /\ s.is_active
                                   /\ s.is_default}
        found == IF strategy_id # NoId THEN byId ELSE defaults
    IN  IF found = {} THEN None ELSE CHOOSE s \in found : TRUE

\* Mutant: the bounds of the inventory and price ranges are exclusive.
_evaluate_rule_set_conditions_exclusive(rule_set, context) ==
    LET conditions == rule_set.conditions
        has(key) == key \in DOMAIN conditions
    IN  IF DOMAIN conditions = {} THEN TRUE
        ELSE /\ has("marketplace") => context.marketplace \in conditions["marketplace"]
             /\ has("category") => context.category \in conditions["category"]
             /\ has("brand") => context.brand \in conditions["brand"]
             /\ has("inventory_min") => context.inventory_level > conditions["inventory_min"]
             /\ has("inventory_max") => context.inventory_level < conditions["inventory_max"]
             /\ has("price_min") => RLt(conditions["price_min"], context.current_price)
             /\ has("price_max") => RLt(context.current_price, conditions["price_max"])

_evaluate_rule_set_conditions(rule_set, context) ==
    LET conditions == rule_set.conditions
        has(key) == key \in DOMAIN conditions
    IN  IF DOMAIN conditions = {} THEN TRUE
        ELSE /\ has("marketplace") => context.marketplace \in conditions["marketplace"]
             /\ has("category") => context.category \in conditions["category"]
             /\ has("brand") => context.brand \in conditions["brand"]
             /\ has("inventory_min") => ~(context.inventory_level < conditions["inventory_min"])
             /\ has("inventory_max") => ~(context.inventory_level > conditions["inventory_max"])
             /\ has("price_min") => ~RLt(context.current_price, conditions["price_min"])
             /\ has("price_max") => ~RLt(conditions["price_max"], context.current_price)

\* All orders of a finite set.
Orders(S) ==
    {q \in [1..Cardinality(S) -> S] : \A i, j \in 1..Cardinality(S) : i # j => q[i] # q[j]}

\* RuleSet.objects.filter(strategy, is_active): Meta.ordering = [priority, name].
RuleSetQuery(strategy) ==
    CHOOSE q \in Orders({rs \in RuleSets : rs.strategy = strategy.id /\ rs.is_active}) :
        \A i, j \in DOMAIN q :
            i < j => \/ q[i].priority < q[j].priority
                     \/ q[i].priority = q[j].priority /\ q[i].name < q[j].name

\* rule_set.rules.filter(is_active=True).order_by('priority'): the rows of equal
\* priority come in whatever order the store returns them.
RulesQuery(rules, rule_set) ==
    {q \in Orders({r \in rules : r.rule_set = rule_set.name /\ r.is_active}) :
        \A i, j \in DOMAIN q : i < j => q[i].priority <= q[j].priority}

\* applicable_rules.extend(rules) over the matching rule sets, in their order.
RECURSIVE Extend(_, _, _)
Extend(rules, rule_sets, context) ==
    IF rule_sets = <<>> THEN {<<>>}
    ELSE IF _evaluate_rule_set_conditions(Head(rule_sets), context)
         THEN {a \o b : a \in RulesQuery(rules, Head(rule_sets)),
                        b \in Extend(rules, Tail(rule_sets), context)}
         ELSE Extend(rules, Tail(rule_sets), context)

\* sorted(applicable_rules, key=lambda r: r.priority): stable.
RECURSIVE Sorted(_)
Sorted(q) ==
    IF q = <<>> THEN <<>>
    ELSE LET least == CHOOSE i \in DOMAIN q :
                          /\ \A j \in DOMAIN q : q[i].priority <= q[j].priority
                          /\ \A j \in 1..(i - 1) : q[j].priority # q[i].priority
             rest == [j \in 1..(Len(q) - 1) |-> IF j < least THEN q[j] ELSE q[j + 1]]
         IN  <<q[least]>> \o Sorted(rest)

\* The lists _get_applicable_rules may return for a strategy and a context.
_get_applicable_rules(rules, strategy, context) ==
    {Sorted(q) : q \in Extend(rules, RuleSetQuery(strategy), context)}

----------------------------------------------------------------------------
(* PricingRulesEngine: the rule application pipeline.                      *)

CompetitorStats(context) ==
    LET cp == context.competitor_prices
    IN  [competitor_min |-> Num(IF cp # <<>> THEN RSeqMin(cp) ELSE R(0)),
         competitor_max |-> Num(IF cp # <<>> THEN RSeqMax(cp) ELSE R(0)),
         competitor_avg |-> Num(IF cp # <<>> THEN RDiv(RSeqSum(cp), R(Len(cp))) ELSE R(0))]

\* dict.update: the entries of b override those of a.
Update(a, b) ==
    [x \in DOMAIN a \cup DOMAIN b |-> IF x \in DOMAIN b THEN b[x] ELSE a[x]]

\* eval_context of _evaluate_rule_condition.
ConditionEvalContext(context) ==
    Update(
        Update(
            [current_price |-> Num(context.current_price),
             cost |-> Num(context.cost),
             inventory |-> Num(R(context.inventory_level)),
             sales_velocity |-> Num(context.sales_velocity),
             seasonality |-> Num(context.seasonality_factor),
             demand_score |-> Num(context.demand_score),
             margin_current |->
                 Num(IF RLt(R(0), context.current_price)
                     THEN RDiv(RSub(context.current_price, context.cost),
                               context.current_price)
                     ELSE R(0)),
             margin_target |-> Num(context.margin_target),
             buy_box |-> Bool(context.buy_box_status = "won")],
            CompetitorStats(context)),
        context.custom_attributes)

\* eval_context of _calculate_rule_adjustment.
ActionEvalContext(context) ==
    Update(
        [current_price |-> Num(context.current_price),
         cost |-> Num(context.cost),
         inventory |-> Num(R(context.inventory_level)),
         sales_velocity |-> Num(context.sales_velocity),
         seasonality |-> Num(context.seasonality_factor),
         demand_score |-> Num(context.demand_score)],
        CompetitorStats(context))

\* True for an empty condition; False when the expression raises.
_evaluate_rule_condition(rule, context) ==
    IF rule.condition = Empty THEN TRUE
    ELSE LET res == Eval(rule.condition, ConditionEvalContext(context))
         IN  IF res.ok THEN Truthy(res.v) ELSE FALSE

\* Decimal(str(result)); Decimal('0') for an empty action value, when the
\* expression raises, or when its result is no decimal literal (bool, str).
_calculate_rule_adjustment(rule, context) ==
    IF rule.action_value = Empty THEN R(0)
    ELSE LET res == Eval(rule.action_value, ActionEvalContext(context))
         IN  IF res.ok /\ res.v.t = "num" THEN res.v.v ELSE R(0)

UndercutFactor == Rat(99, 100)

\* Mutant: undercut_competitor returns the competitor price itself.
_apply_price_adjustment_no_undercut(current_price, adjustment, action_type) ==
    CASE action_type = "increase_percentage" ->
             RMul(current_price, RAdd(R(1), RDiv(adjustment, R(100))))
      [] action_type = "decrease_percentage" ->
             RMul(current_price, RSub(R(1), RDiv(adjustment, R(100))))
      [] action_type = "increase_amount" -> RAdd(current_price, adjustment)
      [] action_type = "decrease_amount" -> RSub(current_price, adjustment)
      [] action_type \in {"set_price", "match_competitor", "undercut_competitor"} ->
             adjustment
      [] OTHER -> current_price

\* Mutant: an unknown action type sets the price to the adjustment.
_apply_price_adjustment_unknown_sets(current_price, adjustment, action_type) ==
    CASE action_type = "increase_percentage" ->
             RMul(current_price, RAdd(R(1), RDiv(adjustment, R(100))))
      [] action_type = "decrease_percentage" ->
             RMul(current_price, RSub(R(1), RDiv(adjustment, R(100))))
      [] action_type = "increase_amount" -> RAdd(current_price, adjustment)
      [] action_type = "decrease_amount" -> RSub(current_price, adjustment)
      [] action_type = "set_price" -> adjustment
      [] action_type = "match_competitor" -> adjustment
      [] action_type = "undercut_competitor" -> RMul(adjustment, UndercutFactor)
      [] OTHER -> adjustment

_apply_price_adjustment(current_price, adjustment, action_type) ==
    CASE action_type = "increase_percentage" ->
             RMul(current_price, RAdd(R(1), RDiv(adjustment, R(100))))
      [] action_type = "decrease_percentage" ->
             RMul(current_price, RSub(R(1), RDiv(adjustment, R(100))))
      [] action_type = "increase_amount" -> RAdd(current_price, adjustment)
      [] action_type = "decrease_amount" -> RSub(current_price, adjustment)
      [] action_type = "set_price" -> adjustment
      [] action_type = "match_competitor" -> adjustment
      [] action_type = "undercut_competitor" -> RMul(adjustment, UndercutFactor)
      [] OTHER -> current_price

\* rule.metadata.get('weight', 1.0) if rule.metadata else 1.0
RuleWeight(rule) ==
    IF DOMAIN rule.metadata = {} THEN Num(R(1))
    ELSE IF "weight" \in DOMAIN rule.metadata THEN rule.metadata["weight"]
    ELSE Num(R(1))

\* The running state of _apply_rules before its first rule.
RulesStart(context) ==
    [new_price |-> context.current_price, rules_applied |-> <<>>,
     warnings |-> <<>>, confidence |-> R(1), reasons |-> <<>>]

\* Mutant: the condition and the action value see the running price.
ApplyRuleOnRunningPrice(acc, rule, context) ==
    LET running == [context EXCEPT !.current_price = acc.new_price]
        price_adjustment == _calculate_rule_adjustment(rule, running)
    IN  IF ~_evaluate_rule_condition(rule, running) \/ RIsZero(price_adjustment) THEN acc
        ELSE [acc EXCEPT
                !.new_price = _apply_price_adjustment(acc.new_price, price_adjustment,
                                                      rule.action_type),
                !.rules_applied = Append(@, rule.name),
                !.reasons = Append(@, <<rule.name, rule.action_type, price_adjustment>>)]

\* Mutant: the rule is applied whether or not its condition holds.
ApplyRuleUnconditionally(acc, rule, context) ==
    LET price_adjustment == _calculate_rule_adjustment(rule, context)
    IN  IF RIsZero(price_adjustment) THEN acc
        ELSE [acc EXCEPT
                !.new_price = _apply_price_adjustment(acc.new_price, price_adjustment,
                                                      rule.action_type),
                !.rules_applied = Append(@, rule.name),
                !.reasons = Append(@, <<rule.name, rule.action_type, price_adjustment>>)]

\* One iteration of the loop of _apply_rules: acc is the running state.
ApplyRule(acc, rule, context) ==
    IF ~_evaluate_rule_condition(rule, context) THEN acc
    ELSE LET price_adjustment == _calculate_rule_adjustment(rule, context)
             rule_weight == RuleWeight(rule)
             applied ==
                 [acc EXCEPT
                    !.new_price = _apply_price_adjustment(acc.new_price, price_adjustment,
                                                          rule.action_type),
                    !.rules_applied = Append(@, rule.name),
                    !.reasons = Append(@, <<rule.name, rule.action_type, price_adjustment>>)]
         IN  IF RIsZero(price_adjustment) THEN acc
             ELSE IF IsNumeric(rule_weight)
                  THEN [applied EXCEPT !.confidence = RMul(@, AsNum(rule_weight))]
                  \* confidence *= rule_weight raises: the handler records a warning
                  ELSE [applied EXCEPT !.warnings = Append(@, <<"rule_failed", rule.name>>)]

\* The provisional PricingResult _apply_rules returns.
RulesResult(acc) ==
    [new_price |-> acc.new_price,
     confidence |-> RMin(acc.confidence, R(1)),
     reason |-> IF acc.reasons # <<>> THEN acc.reasons ELSE << <<"No rules applied">> >>,
     rules_applied |-> acc.rules_applied,
     safety_checks_passed |-> TRUE,
     warnings |-> acc.warnings,
     metadata |-> <<>>]

RECURSIVE RulesFold(_, _, _)
RulesFold(acc, rules, context) ==
    IF rules = <<>> THEN acc
    ELSE RulesFold(ApplyRule(acc, Head(rules), context), Tail(rules), context)

_apply_rules(rules, context) == RulesResult(RulesFold(RulesStart(context), rules, context))

----------------------------------------------------------------------------
(* PricingRulesEngine: the safety constraint enforcer.                     *)

Passed == [ok |-> TRUE, passed |-> TRUE]
Violated(suggested) == [ok |-> TRUE, passed |-> FALSE, suggested_price |-> suggested]

_check_safety_constraint(constraint, new_price, context) ==
    LET threshold == constraint.threshold
        type == constraint.constraint_type
    IN  CASE type = "min_margin" ->
                 LET margin == IF RLt(R(0), new_price)
                               THEN RDiv(RSub(new_price, context.cost), new_price)
                               ELSE R(0)
                 IN  IF RLt(margin, threshold)
                     THEN IF RIsZero(RSub(R(1), threshold))
                          THEN Raise("DivisionByZero")
                          ELSE Violated(RDiv(context.cost, RSub(R(1), threshold)))
                     ELSE Passed
          [] type = "max_price_change" ->
                 IF RIsZero(context.current_price) THEN Raise("DivisionByZero")
                 ELSE LET price_change == RDiv(RAbs(RSub(new_price, context.current_price)),
                                               context.current_price)
                          max_change == RMul(context.current_price, threshold)
                      IN  IF RLt(threshold, price_change)
                          THEN IF RLt(context.current_price, new_price)
                               THEN Violated(RAdd(context.current_price, max_change))
                               ELSE Violated(RSub(context.current_price, max_change))
                          ELSE Passed
          [] type = "min_price" ->
                 IF RLt(new_price, threshold) THEN Violated(threshold) ELSE Passed
          [] type = "max_price" ->
                 IF RLt(threshold, new_price) THEN Violated(threshold) ELSE Passed
          [] OTHER -> Passed

\* SafetyConstraint.objects.filter(strategy=strategy, is_active=True): the
\* matching rows, in the order of the stored sequence.
ConstraintsQuery(stored, strategy) ==
    SelectSeq(stored, LAMBDA c : c.strategy = strategy.id /\ c.is_active)

\* The running state of _apply_safety_constraints before its first constraint.
SafetyStart(result) ==
    [new_price |-> result.new_price, warnings |-> result.warnings,
     safety_passed |-> TRUE, raised |-> FALSE]

\* Mutant: a violated warn constraint also takes the suggested price.
OnViolationWarnAdjusts(acc, constraint, constraint_result, context) ==
    LET failed == [acc EXCEPT !.safety_passed = FALSE]
    IN  CASE constraint.action = "block" ->
                 [failed EXCEPT !.new_price = context.current_price,
                                !.warnings = Append(@, <<"blocked", constraint.name>>)]
          [] constraint.action = "adjust" ->
                 [failed EXCEPT !.new_price = constraint_result.suggested_price,
                                !.warnings = Append(@, <<"adjusted", constraint.name>>)]
          [] constraint.action = "warn" ->
                 [failed EXCEPT !.new_price = constraint_result.suggested_price,
                                !.warnings = Append(@, <<"warning", constraint.name>>)]
          [] OTHER -> failed

\* Mutant: a violated adjust constraint only records its warning.
OnViolationAdjustKeepsPrice(acc, constraint, constraint_result, context) ==
    LET failed == [acc EXCEPT !.safety_passed = FALSE]
    IN  CASE constraint.action = "block" ->
                 [failed EXCEPT !.new_price = context.current_price,
                                !.warnings = Append(@, <<"blocked", constraint.name>>)]
          [] constraint.action = "adjust" ->
                 [failed EXCEPT !.warnings = Append(@, <<"adjusted", constraint.name>>)]
          [] constraint.action = "warn" ->
                 [failed EXCEPT !.warnings = Append(@, <<"warning", constraint.name>>)]
          [] OTHER -> failed

\* Mutant: a violated adjust constraint leaves safety_passed as it was.
OnViolationAdjustKeepsFlag(acc, constraint, constraint_result, context) ==
    CASE constraint.action = "block" ->
             [acc EXCEPT !.safety_passed = FALSE,
                         !.new_price = context.current_price,
                         !.warnings = Append(@, <<"blocked", constraint.name>>)]
      [] constraint.action = "adjust" ->
             [acc EXCEPT !.new_price = constraint_result.suggested_price,
                         !.warnings = Append(@, <<"adjusted", constraint.name>>)]
      [] constraint.action = "warn" ->
             [acc EXCEPT !.safety_passed = FALSE,
                         !.warnings = Append(@, <<"warning", constraint.name>>)]
      [] OTHER -> [acc EXCEPT !.safety_passed = FALSE]

\* The body of `if not constraint_result['passed']`.
OnViolation(acc, constraint, constraint_result, context) ==
    LET failed == [acc EXCEPT !.safety_passed = FALSE]
    IN  CASE constraint.action = "block" ->
                 [failed EXCEPT !.new_price = context.current_price,
                                !.warnings = Append(@, <<"blocked", constraint.name>>)]
          [] constraint.action = "adjust" ->
                 IF "suggested_price" \in DOMAIN constraint_result
                 THEN [failed EXCEPT !.new_price = constraint_result.suggested_price,
                                     !.warnings = Append(@, <<"adjusted", constraint.name>>)]
                 ELSE failed
          [] constraint.action = "warn" ->
                 [failed EXCEPT !.warnings = Append(@, <<"warning", constraint.name>>)]
          [] OTHER -> failed

\* One iteration of the loop of _apply_safety_constraints.
ApplyConstraint(acc, constraint, context) ==
    LET constraint_result == _check_safety_constraint(constraint, acc.new_price, context)
    IN  IF ~constraint_result.ok THEN [acc EXCEPT !.raised = TRUE]
        ELSE IF constraint_result.passed THEN acc
        ELSE OnViolation(acc, constraint, constraint_result, context)

\* The PricingResult _apply_safety_constraints returns.
SafetyResult(result, acc) ==
    [new_price |-> acc.new_price,
     confidence |-> result.confidence,
     reason |-> result.reason,
     rules_applied |-> result.rules_applied,
     safety_checks_passed |-> acc.safety_passed,
     warnings |-> acc.warnings,
     metadata |-> result.metadata]

RECURSIVE SafetyFold(_, _, _)
SafetyFold(acc, constraints, context) ==
    IF constraints = <<>> \/ acc.raised THEN acc
    ELSE SafetyFold(ApplyConstraint(acc, Head(constraints), context),
                    Tail(constraints), context)

\* The result of _apply_safety_constraints over a list of constraints, or
\* Raise when a check raises.
_apply_safety_constraints(result, context, constraints) ==
    LET acc == SafetyFold(SafetyStart(result), constraints, context)
    IN  IF acc.raised THEN Raise("DivisionByZero") ELSE Ok(SafetyResult(result, acc))

\* The two failed results of evaluate_pricing.
NoStrategyResult(context) ==
    [new_price |-> context.current_price, confidence |-> R(0),
     reason |-> << <<"No valid pricing strategy found">> >>,
     rules_applied |-> <<>>, safety_checks_passed |-> FALSE,
     warnings |-> << <<"No pricing strategy available">> >>, metadata |-> <<>>]

ErrorResult(context, e) ==
    [new_price |-> context.current_price, confidence |-> R(0),
     reason |-> << <<"Error during pricing evaluation", e>> >>,
     rules_applied |-> <<>>, safety_checks_passed |-> FALSE,
     warnings |-> << <<"Evaluation error", e>> >>, metadata |-> <<>>]

----------------------------------------------------------------------------
(* MLPricingEngine: the constrained price optimizer.  A trained sklearn    *)
(* model is an opaque function of its features; the model stands for it by *)
(* a prediction that depends on the price under test.                      *)

NumCandidates == 20

MLPricingContext(pid, price, cost) ==
    [product_id |-> pid, current_price |-> price, cost |-> cost]

MLContexts == { MLPricingContext("P-1", R(30), R(15)) }

MLModel(type, version, behaviour, file_exists) ==
    [model_type |-> type, version |-> version, behaviour |-> behaviour,
     status |-> "active", is_default |-> TRUE, file_exists |-> file_exists]

\* The model stores explored: per model type, the active default model or None.
DemandModels ==
    { None,
      MLModel("demand_forecasting", "v1", "flat", TRUE),
      MLModel("demand_forecasting", "v1", "flat", FALSE),
      MLModel("demand_forecasting", "v1", "falling", TRUE) }

BuyBoxModels ==
    { None, MLModel("buy_box_prediction", "v1", "falling", TRUE) }

PriceModels ==
    { None,
      MLModel("price_optimization", "v1", "low", TRUE),
      MLModel("price_optimization", "v1", "high", TRUE) }

ModelStores ==
    { [demand_forecasting |-> d, buy_box_prediction |-> b, price_optimization |-> p] :
          d \in DemandModels, b \in BuyBoxModels, p \in PriceModels }

\* model.sklearn_model.predict on the features of a context whose
\* current_price is the price under test.
Predict(model, price) ==
    CASE model.behaviour = "flat" -> R(10)
      [] model.behaviour = "falling" /\ model.model_type = "demand_forecasting" ->
             RSub(R(40), price)
      [] model.behaviour = "falling" -> RDiv(RSub(R(50), price), R(20))
      [] model.behaviour = "low" -> R(12)
      [] model.behaviour = "high" -> R(80)

\* _get_model: the cached model if any, else the active default of the store,
\* which is cached once its artifact is loaded.  <<model, cache afterwards>>
_get_model(cache, store, model_type) ==
    IF model_type \in DOMAIN cache THEN <<cache[model_type], cache>>
    ELSE IF store[model_type] = None THEN <<None, cache>>
    ELSE IF ~store[model_type].file_exists THEN <<None, cache>>
    ELSE <<store[model_type],
           [t \in DOMAIN cache \cup {model_type} |->
                IF t = model_type THEN store[model_type] ELSE cache[t]]>>

\* predict_demand(context, [price])[0]: raises without a model.
predict_demand(model, price) ==
    IF model = None THEN Raise("ValueError")
    ELSE Ok(RMax(R(0), Predict(model, price)))

\* predict_buy_box_probability(context, price): 0.5 without a model.
predict_buy_box_probability(model, price) ==
    IF model = None THEN Rat(1, 2)
    ELSE RMax(R(0), RMin(R(1), Predict(model, price)))

\* np.linspace(effective_min_price, max_price, 20)[i], i = 0 .. 19
Candidate(effective_min_price, max_price, i) ==
    RAdd(effective_min_price,
         RDiv(RMul(R(i), RSub(max_price, effective_min_price)), R(NumCandidates - 1)))

Score(price, cost, demand, buy_box_prob) ==
    LET expected_sales == RMul(demand, buy_box_prob)
        revenue == RMul(price, expected_sales)
        profit == RMul(RSub(price, cost), expected_sales)
    IN  RAdd(RAdd(RMul(profit, Rat(6, 10)), RMul(revenue, Rat(3, 10))),
             RMul(RMul(buy_box_prob, R(100)), Rat(1, 10)))

MLPricingResult(price, confidence, version, score) ==
    [predicted_price |-> price, confidence |-> confidence,
     model_type |-> "price_optimization", model_version |-> version,
     optimization_score |-> score]

\* The arguments (min_price, max_price, min_margin) a caller passes.
OptimizeArgs ==
    { [min_price |-> R(10), max_price |-> R(49), min_margin |-> Rat(1, 2)],
      [min_price |-> R(10), max_price |-> R(50), min_margin |-> Rat(1, 2)],
      [min_price |-> R(10), max_price |-> R(20), min_margin |-> Rat(1, 2)],
      [min_price |-> R(20), max_price |-> R(39), min_margin |-> Rat(1, 10)],
      [min_price |-> R(10), max_price |-> R(50), min_margin |-> R(1)] }

----------------------------------------------------------------------------
(* State.                                                                  *)

VARIABLES
    strategies,      \* configuration store: PricingStrategy rows
    rules,           \* configuration store: PricingRule rows
    constraints,     \* configuration store: SafetyConstraint rows, as declared
    executions,      \* audit store: RuleExecution rows
    pc,              \* position of the call of evaluate_pricing in flight
    context,         \* its PricingContext
    strategy_id,     \* its strategy selector
    strategy,        \* the strategy _get_strategy found
    rule_list,       \* rules still to apply in _apply_rules
    acc,             \* running state of _apply_rules
    pricing_result,  \* provisional result of _apply_rules
    constraint_list, \* constraints still to check in _apply_safety_constraints
    safety,          \* running state of _apply_safety_constraints
    final_result,    \* result of _apply_safety_constraints
    returned,        \* the PricingResult handed to the caller
    calls,           \* the engine functions entered so far, in order
    ml_models,       \* model store: the active default MLModel per model type
    models_cache,    \* MLPricingEngine.models_cache
    mlpc,            \* position of the call of optimize_price_with_constraints
    ml_call,         \* its context, arguments and effective_min_price
    ml_i,            \* index of the next price candidate
    ml_best,         \* best_result so far
    ml_returned,     \* the MLPricingResult handed to the caller, or the error raised
    cond_pc,         \* position of a direct call of _evaluate_rule_set_conditions
    cond_rule_set,   \* its rule set
    cond_context,    \* its context
    cond_result,     \* the value it returned
    version,             \* number of configuration changes published so far
    rules_version,       \* configuration version the rules of the call were read from
    constraints_version, \* configuration version its safety constraints were read from
    sim_pc,              \* position of a call of simulate_pricing
    sim_contexts,        \* its contexts
    sim_strategy_id,     \* its strategy selector
    results,             \* its list of results so far
    check_pc,            \* position of a direct call of _check_safety_constraint
    check_constraint,    \* its constraint
    check_price,         \* its new_price
    check_context,       \* its context
    check_result         \* what it returned or raised

rulevars == <<executions, pc, context, strategy_id, strategy, rule_list, acc,
              pricing_result, constraint_list, safety, final_result, returned>>

mlvars == <<ml_models, models_cache, mlpc, ml_call, ml_i, ml_best, ml_returned>>

condvars == <<cond_pc, cond_rule_set, cond_context, cond_result>>

snapvars == <<version, rules_version, constraints_version>>

simvars == <<sim_pc, sim_contexts, sim_strategy_id, results>>

checkvars == <<check_pc, check_constraint, check_price, check_context, check_result>>

vars == <<strategies, rules, constraints, rulevars, calls, mlvars, condvars, snapvars,
          simvars, checkvars>>

config == <<strategies, rules, constraints>>

\* The sequences without repetition of at most n elements of S.
SeqsUpTo(S, n) ==
    UNION {{q \in [1..k -> S] : \A i, j \in 1..k : i # j => q[i] # q[j]} : k \in 0..n}

EngineIdle ==
    /\ executions = <<>>
    /\ pc = "idle"
    /\ context = None
    /\ strategy_id = NoId
    /\ strategy = None
    /\ rule_list = <<>>
    /\ acc = None
    /\ pricing_result = None
    /\ constraint_list = <<>>
    /\ safety = None
    /\ final_result = None
    /\ returned = None
    /\ calls = <<>>

NoCache == [x \in {} |-> None]

MLEngineIdle ==
    /\ models_cache = NoCache
    /\ mlpc = "idle"
    /\ ml_call = None
    /\ ml_i = 0
    /\ ml_best = None
    /\ ml_returned = None

ConditionsIdle ==
    /\ cond_pc = "idle"
    /\ cond_rule_set = None
    /\ cond_context = None
    /\ cond_result = FALSE

SnapshotIdle ==
    /\ version = 0
    /\ rules_version = 0
    /\ constraints_version = 0

SimulateIdle ==
    /\ sim_pc = "idle"
    /\ sim_contexts = <<>>
    /\ sim_strategy_id = NoId
    /\ results = <<>>

CheckIdle ==
    /\ check_pc = "idle"
    /\ check_constraint = None
    /\ check_price = R(0)
    /\ check_context = None
    /\ check_result = None

Init ==
    /\ strategies \in StrategyTables
    /\ \E chosen \in SUBSET RuleCatalog :
           /\ Cardinality(chosen) <= MaxRules
           /\ rules = chosen \cup FixedRules
    /\ \E declared \in SeqsUpTo(ConstraintCatalog, MaxConstraints) :
           constraints = declared \o FixedConstraints
    /\ EngineIdle
    /\ ml_models = [demand_forecasting |-> None, buy_box_prediction |-> None,
                    price_optimization |-> None]
    /\ MLEngineIdle
    /\ ConditionsIdle
    /\ SnapshotIdle
    /\ SimulateIdle
    /\ CheckIdle

----------------------------------------------------------------------------
(* evaluate_pricing, statement by statement.                               *)

\* A caller invokes evaluate_pricing(context, strategy_id); _get_strategy runs.
\* Without a strategy the failed result is returned at once.
EvaluatePricing(ctx, sid) ==
    /\ pc = "idle"
    /\ context' = ctx
    /\ strategy_id' = sid
    /\ strategy' = _get_strategy(strategies, sid)
    /\ IF strategy' = None
       THEN /\ returned' = NoStrategyResult(ctx)
            /\ pc' = "done"
       ELSE /\ returned' = returned
            /\ pc' = "get_rules"
    /\ calls' = <<"evaluate_pricing", "_get_strategy">>
    /\ UNCHANGED <<config, executions, rule_list, acc, pricing_result,
                   constraint_list, safety, final_result>>
    /\ UNCHANGED <<mlvars, condvars, snapvars, simvars, checkvars>>

\* rules = self._get_applicable_rules(strategy, context)
GetApplicableRules ==
    /\ pc = "get_rules"
    /\ rule_list' \in _get_applicable_rules(rules, strategy, context)
    /\ acc' = RulesStart(context)
    /\ pc' = "apply_rules"
    /\ calls' = calls \o <<"_get_applicable_rules", "_apply_rules">>
    /\ UNCHANGED <<config, executions, context, strategy_id, strategy, pricing_result,
                   constraint_list, safety, final_result, returned>>
    /\ rules_version' = version
    /\ UNCHANGED <<mlvars, condvars, simvars, checkvars, version, constraints_version>>

\* One iteration of `for rule in rules` in _apply_rules.
ApplyRuleStep ==
    /\ pc = "apply_rules"
    /\ rule_list # <<>>
    /\ acc' = ApplyRule(acc, Head(rule_list), context)
    /\ rule_list' = Tail(rule_list)
    /\ UNCHANGED <<config, executions, pc, context, strategy_id, strategy, pricing_result,
                   constraint_list, safety, final_result, returned, calls>>
    /\ UNCHANGED <<mlvars, condvars, snapvars, simvars, checkvars>>

\* _apply_rules returns; _apply_safety_constraints queries the constraints.
EnterSafety ==
    /\ pc = "apply_rules"
    /\ rule_list = <<>>
    /\ pricing_result' = RulesResult(acc)
    /\ constraint_list' = ConstraintsQuery(constraints, strategy)
    /\ safety' = SafetyStart(pricing_result')
    /\ pc' = "check"
    /\ calls' = Append(calls, "_apply_safety_constraints")
    /\ UNCHANGED <<config, executions, context, strategy_id, strategy, rule_list, acc,
                   final_result, returned>>
    /\ constraints_version' = version
    /\ UNCHANGED <<mlvars, condvars, simvars, checkvars, version, rules_version>>

\* Mutant: warnings = result.warnings, without the copy: every warning the
\* enforcer appends also lands in the provisional result.
CheckConstraintStepAliased ==
    /\ pc = "check"
    /\ constraint_list # <<>>
    /\ safety' = ApplyConstraint(safety, Head(constraint_list), context)
    /\ constraint_list' = Tail(constraint_list)
    /\ pc' = IF safety'.raised THEN "error" ELSE "check"
    /\ pricing_result' = [pricing_result EXCEPT !.warnings = safety'.warnings]
    /\ UNCHANGED <<config, executions, context, strategy_id, strategy, rule_list, acc,
                   final_result, returned, calls>>
    /\ UNCHANGED <<mlvars, condvars, snapvars, simvars, checkvars>>

\* One iteration of `for constraint in constraints`; a check that raises
\* leaves the function for the handler of evaluate_pricing.
CheckConstraintStep ==
    /\ pc = "check"
    /\ constraint_list # <<>>
    /\ safety' = ApplyConstraint(safety, Head(constraint_list), context)
    /\ constraint_list' = Tail(constraint_list)
    /\ pc' = IF safety'.raised THEN "error" ELSE "check"
    /\ UNCHANGED <<config, executions, context, strategy_id, strategy, rule_list, acc,
                   pricing_result, final_result, returned, calls>>
    /\ UNCHANGED <<mlvars, condvars, snapvars, simvars, checkvars>>

\* _apply_safety_constraints returns its PricingResult.
LeaveSafety ==
    /\ pc = "check"
    /\ constraint_list = <<>>
    /\ final_result' = SafetyResult(pricing_result, safety)
    /\ pc' = "log"
    /\ UNCHANGED <<config, executions, context, strategy_id, strategy, rule_list, acc,
                   pricing_result, constraint_list, safety, returned, calls>>
    /\ UNCHANGED <<mlvars, condvars, snapvars, simvars, checkvars>>

RuleExecution(strat, result, ctx) ==
    [organization |-> Organization, strategy |-> strat.id,
     product_id |-> ctx.product_id, marketplace |-> ctx.marketplace,
     original_price |-> ctx.current_price, calculated_price |-> result.new_price,
     confidence_score |-> result.confidence, rules_applied |-> result.rules_applied,
     safety_checks_passed |-> result.safety_checks_passed,
     warnings |-> result.warnings, reason |-> result.reason]

\* Mutant: a failed write of the execution record reaches the exception
\* handler of evaluate_pricing.
LogExecutionPropagates(written) ==
    /\ pc = "log"
    /\ executions' = IF written
                     THEN Append(executions, RuleExecution(strategy, final_result, context))
                     ELSE executions
    /\ pc' = IF written THEN "return" ELSE "error"
    /\ calls' = Append(calls, "_log_execution")
    /\ UNCHANGED <<config, context, strategy_id, strategy, rule_list, acc, pricing_result,
                   constraint_list, safety, final_result, returned>>
    /\ UNCHANGED <<mlvars, condvars, snapvars, simvars, checkvars>>

\* _log_execution: the write succeeds, or raises and is swallowed.
LogExecution(written) ==
    /\ pc = "log"
    /\ executions' = IF written
                     THEN Append(executions, RuleExecution(strategy, final_result, context))
                     ELSE executions
    /\ pc' = "return"
    /\ calls' = Append(calls, "_log_execution")
    /\ UNCHANGED <<config, context, strategy_id, strategy, rule_list, acc, pricing_result,
                   constraint_list, safety, final_result, returned>>
    /\ UNCHANGED <<mlvars, condvars, snapvars, simvars, checkvars>>

\* return final_result
Return ==
    /\ pc = "return"
    /\ returned' = final_result
    /\ pc' = "done"
    /\ UNCHANGED <<config, executions, context, strategy_id, strategy, rule_list, acc,
                   pricing_result, constraint_list, safety, final_result, calls>>
    /\ UNCHANGED <<mlvars, condvars, snapvars, simvars, checkvars>>

\* Mutant: the exception handler returns the candidate price of the pipeline.
HandleExceptionKeepsCandidate ==
    /\ pc = "error"
    /\ returned' = [ErrorResult(context, "DivisionByZero")
                       EXCEPT !.new_price = pricing_result.new_price]
    /\ pc' = "done"
    /\ UNCHANGED <<config, executions, context, strategy_id, strategy, rule_list, acc,
                   pricing_result, constraint_list, safety, final_result, calls>>
    /\ UNCHANGED <<mlvars, condvars, snapvars, simvars, checkvars>>

\* except Exception: the failed result is returned.
HandleException ==
    /\ pc = "error"
    /\ returned' = ErrorResult(context, "DivisionByZero")
    /\ pc' = "done"
    /\ UNCHANGED <<config, executions, context, strategy_id, strategy, rule_list, acc,
                   pricing_result, constraint_list, safety, final_result, calls>>
    /\ UNCHANGED <<mlvars, condvars, snapvars, simvars, checkvars>>

Next ==
    \/ \E ctx \in Contexts, sid \in StrategyIds : EvaluatePricing(ctx, sid)
    \/ GetApplicableRules
    \/ ApplyRuleStep
    \/ EnterSafety
    \/ CheckConstraintStep
    \/ LeaveSafety
    \/ \E written \in BOOLEAN : LogExecution(written)
    \/ Return
    \/ HandleException

Spec == Init /\ [][Next]_vars

----------------------------------------------------------------------------
(* MLPricingEngine.optimize_price_with_constraints, one candidate at a    *)
(* time.  The caller receives its result directly.                        *)

\* A constraint table in which the ml_based strategy is the active one.
InitML ==
    /\ strategies \in { t \in StrategyTables :
                           \E s \in t : s.strategy_type = "ml_based" /\ s.is_active }
    /\ rules = FixedRules
    /\ constraints = FixedConstraints
    /\ EngineIdle
    /\ ml_models \in ModelStores
    /\ MLEngineIdle
    /\ ConditionsIdle
    /\ SnapshotIdle
    /\ SimulateIdle
    /\ CheckIdle

DefaultConfidence == Rat(8, 10)

\* Mutant: the range is never found infeasible.
InfeasibleNever(effective_min_price, max_price) == FALSE

\* if effective_min_price > max_price
Infeasible(effective_min_price, max_price) == RLt(max_price, effective_min_price)

\* The arguments of the call, as the engine holds them.
MLCall(ctx, args, effective_min_price) ==
    [context |-> ctx, min_price |-> args.min_price, max_price |-> args.max_price,
     min_margin |-> args.min_margin, effective_min_price |-> effective_min_price]

\* Entry: the effective lower bound, the infeasibility error, the grid.
OptimizePriceWithConstraints(ctx, args) ==
    /\ mlpc = "idle"
    /\ calls' = <<"optimize_price_with_constraints">>
    /\ IF args.min_margin = R(1)
       THEN /\ mlpc' = "raised"
            /\ ml_call' = MLCall(ctx, args, None)
            /\ ml_returned' = Raise("ZeroDivisionError")
            /\ UNCHANGED <<ml_i, ml_best>>
       ELSE LET min_price_for_margin == RDiv(ctx.cost, RSub(R(1), args.min_margin))
                effective_min_price == RMax(args.min_price, min_price_for_margin)
            IN  /\ ml_call' = MLCall(ctx, args, effective_min_price)
                /\ IF Infeasible(effective_min_price, args.max_price)
                   THEN /\ mlpc' = "raised"
                        /\ ml_returned' = Raise("ValueError")
                        /\ UNCHANGED <<ml_i, ml_best>>
                   ELSE /\ mlpc' = "candidates"
                        /\ ml_i' = 0
                        /\ ml_best' = None
                        /\ UNCHANGED ml_returned
    /\ UNCHANGED <<config, rulevars, condvars, snapvars, simvars, checkvars, ml_models, models_cache>>

\* Mutant: every evaluated candidate replaces the best one.
BetterAlways(best, score) == TRUE

\* if score > best_score, best_score starting at -inf
Better(best, score) == best = None \/ RLt(best.optimization_score, score)

\* One iteration of the loop over price_candidates; an exception in the
\* body skips the candidate.
CandidateStep ==
    /\ mlpc = "candidates"
    /\ ml_i < NumCandidates
    /\ LET price == Candidate(ml_call.effective_min_price, ml_call.max_price, ml_i)
           cost == ml_call.context.cost
           dm == _get_model(models_cache, ml_models, "demand_forecasting")
           demand == predict_demand(dm[1], price)
           bm == _get_model(dm[2], ml_models, "buy_box_prediction")
           buy_box_prob == predict_buy_box_probability(bm[1], price)
           score == Score(price, cost, demand.v, buy_box_prob)
       IN  IF ~demand.ok
           THEN /\ models_cache' = dm[2]
                /\ calls' = Append(calls, "predict_demand")
                /\ UNCHANGED ml_best
           ELSE /\ models_cache' = bm[2]
                /\ calls' = calls \o <<"predict_demand", "predict_buy_box_probability">>
                /\ IF RIsZero(price)
                   THEN UNCHANGED ml_best
                   ELSE IF Better(ml_best, score)
                   THEN ml_best' = MLPricingResult(price, buy_box_prob, "ensemble", score)
                   ELSE UNCHANGED ml_best
    /\ ml_i' = ml_i + 1
    /\ UNCHANGED <<config, rulevars, condvars, snapvars, simvars, checkvars, ml_models, mlpc, ml_call, ml_returned>>

\* After the loop: the best candidate, or the predict_optimal_price fallback,
\* which raises without a price_optimization model.
FinishOptimize ==
    /\ mlpc = "candidates"
    /\ ml_i = NumCandidates
    /\ IF ml_best # None
       THEN /\ mlpc' = "returned"
            /\ ml_returned' = ml_best
            /\ UNCHANGED <<calls, models_cache>>
       ELSE LET pm == _get_model(models_cache, ml_models, "price_optimization")
            IN  /\ calls' = Append(calls, "predict_optimal_price")
                /\ models_cache' = pm[2]
                /\ IF pm[1] = None
                   THEN /\ mlpc' = "raised"
                        /\ ml_returned' = Raise("ValueError")
                   ELSE /\ mlpc' = "returned"
                        /\ ml_returned' =
                               MLPricingResult(Predict(pm[1], ml_call.context.current_price),
                                               DefaultConfidence, pm[1].version, None)
    /\ UNCHANGED <<config, rulevars, condvars, snapvars, simvars, checkvars, ml_models, ml_call, ml_i, ml_best>>

NextML ==
    \/ \E ctx \in MLContexts, args \in OptimizeArgs :
           OptimizePriceWithConstraints(ctx, args)
    \/ CandidateStep
    \/ FinishOptimize

SpecML == InitML /\ [][NextML]_vars

----------------------------------------------------------------------------
(* _evaluate_rule_set_conditions called on its own, over rule sets whose   *)
(* conditions hold any subset of the seven filter keys and over contexts   *)
(* on, inside and outside each bound.                                      *)

ConditionKeys ==
    {"marketplace", "category", "brand", "inventory_min", "inventory_max",
     "price_min", "price_max"}

\* The value stored under each key of RuleSet.conditions.
ConditionValue(key) ==
    CASE key = "marketplace" -> {"amazon"}
      [] key = "category" -> {"electronics"}
      [] key = "brand" -> {"test_brand"}
      [] key = "inventory_min" -> 10
      [] key = "inventory_max" -> 100
      [] key = "price_min" -> R(25)
      [] key = "price_max" -> R(30)

ConditionSets == { [k \in keys |-> ConditionValue(k)] : keys \in SUBSET ConditionKeys }

ConditionContexts ==
    { [PricingContext("P-3", price, R(15), inv, <<>>, mkt, "won", NoAttributes)
          EXCEPT !.category = cat, !.brand = brand] :
          price \in {R(20), R(25), R(30), R(35)}, inv \in {5, 10, 100, 150},
          mkt \in {"amazon", "flipkart"}, cat \in {"electronics", "toys"},
          brand \in {"test_brand", "other"} }

InitConditions ==
    /\ strategies \in { t \in StrategyTables : \E s \in t : s.id = "s1" /\ s.is_active }
    /\ rules = FixedRules
    /\ constraints = FixedConstraints
    /\ EngineIdle
    /\ ml_models = [demand_forecasting |-> None, buy_box_prediction |-> None,
                    price_optimization |-> None]
    /\ MLEngineIdle
    /\ cond_pc = "idle"
    /\ \E conditions \in ConditionSets :
           cond_rule_set = RuleSet("rs9", "s1", 1, conditions, TRUE)
    /\ cond_context \in ConditionContexts
    /\ cond_result = FALSE
    /\ SnapshotIdle
    /\ SimulateIdle
    /\ CheckIdle

EvaluateRuleSetConditions ==
    /\ cond_pc = "idle"
    /\ cond_result' = _evaluate_rule_set_conditions(cond_rule_set, cond_context)
    /\ cond_pc' = "done"
    /\ UNCHANGED <<config, rulevars, calls, mlvars, snapvars, simvars, checkvars, cond_rule_set, cond_context>>

NextConditions == EvaluateRuleSetConditions

SpecConditions == InitConditions /\ [][NextConditions]_vars

----------------------------------------------------------------------------
(* An administrator changes the configuration while evaluate_pricing runs. *)
(* The engine holds no snapshot: each query reads the store as it is when  *)
(* the query runs.                                                         *)

MaxPublishes == 1

RuleNamed(name) == CHOOSE r \in RuleCatalog : r.name = name
ConstraintNamed(name) == CHOOSE c \in ConstraintCatalog : c.name = name

\* The rules and safety constraints of configuration version v.
Configuration(v) ==
    IF v % 2 = 0
    THEN [rules |-> {RuleNamed("undercut")} \cup FixedRules,
          constraints |-> <<ConstraintNamed("floor_adjust")>> \o FixedConstraints]
    ELSE [rules |-> {RuleNamed("match")} \cup FixedRules,
          constraints |-> <<ConstraintNamed("cap_adjust"), ConstraintNamed("margin_all")>>
                              \o FixedConstraints]

InitConcurrent ==
    /\ strategies \in StrategyTables
    /\ rules = Configuration(0).rules
    /\ constraints = Configuration(0).constraints
    /\ EngineIdle
    /\ ml_models = [demand_forecasting |-> None, buy_box_prediction |-> None,
                    price_optimization |-> None]
    /\ MLEngineIdle
    /\ ConditionsIdle
    /\ SnapshotIdle
    /\ SimulateIdle
    /\ CheckIdle

\* One transaction of the configuration store replaces the rules and the
\* safety constraints; it may commit between any two steps of a call.
PublishConfiguration ==
    /\ version < MaxPublishes
    /\ version' = version + 1
    /\ rules' = Configuration(version').rules
    /\ constraints' = Configuration(version').constraints
    /\ UNCHANGED <<strategies, rulevars, calls, mlvars, condvars, simvars, checkvars, rules_version,
                   constraints_version>>

NextConcurrent ==
    \/ Next
    \/ PublishConfiguration

SpecConcurrent == InitConcurrent /\ [][NextConcurrent]_vars

----------------------------------------------------------------------------
(* A new default model is published while an MLPricingEngine is alive.     *)

ModelTypes == {"demand_forecasting", "buy_box_prediction", "price_optimization"}

\* The model that replaces the active default of a type.
NewDefault(model_type) ==
    MLModel(model_type, "v2",
            CASE model_type = "demand_forecasting" -> "flat"
              [] model_type = "buy_box_prediction" -> "falling"
              [] model_type = "price_optimization" -> "low",
            TRUE)

\* Training publishes a new active default for a type that has one; the
\* previous default is no longer the row MLModel.objects.get(...) finds.
PublishModel(model_type) ==
    /\ ml_models[model_type] # None
    /\ ml_models[model_type].version = "v1"
    /\ ml_models' = [ml_models EXCEPT ![model_type] = NewDefault(model_type)]
    /\ UNCHANGED <<config, rulevars, calls, condvars, snapvars, simvars, checkvars, models_cache, mlpc,
                   ml_call, ml_i, ml_best, ml_returned>>

NextMLCache ==
    \/ NextML
    \/ \E model_type \in ModelTypes : PublishModel(model_type)

SpecMLCache == InitML /\ [][NextMLCache]_vars

----------------------------------------------------------------------------
(* PricingRulesEngine.simulate_pricing: evaluate_pricing per context, the  *)
(* results collected in a list.                                            *)

MaxBatch == 2

\* The contexts of a batch: those of Contexts and a free sample (cost 0).
SimContexts ==
    Contexts \cup {PricingContext("P-0", R(20), R(0), 5, <<R(19)>>, "amazon", "lost",
                                  NoAttributes)}

InitSimulate ==
    /\ strategies \in { t \in StrategyTables : \E s \in t : s.id = "s1" /\ s.is_active }
    /\ rules = {RuleNamed("undercut"), RuleNamed("promo")} \cup FixedRules
    /\ constraints \in { <<ConstraintNamed("margin_all")>> \o FixedConstraints,
                         <<ConstraintNamed("cap_adjust")>> \o FixedConstraints }
    /\ EngineIdle
    /\ ml_models = [demand_forecasting |-> None, buy_box_prediction |-> None,
                    price_optimization |-> None]
    /\ MLEngineIdle
    /\ ConditionsIdle
    /\ SnapshotIdle
    /\ SimulateIdle
    /\ CheckIdle

\* results = []
SimulatePricing(contexts, sid) ==
    /\ sim_pc = "idle"
    /\ pc = "idle"
    /\ sim_pc' = "loop"
    /\ sim_contexts' = contexts
    /\ sim_strategy_id' = sid
    /\ results' = <<>>
    /\ UNCHANGED <<config, rulevars, calls, mlvars, condvars, snapvars, checkvars>>

\* for context in contexts: result = self.evaluate_pricing(context, strategy_id)
SimEvaluate ==
    /\ sim_pc = "loop"
    /\ Len(results) < Len(sim_contexts)
    /\ EvaluatePricing(sim_contexts[Len(results) + 1], sim_strategy_id)

\* Mutant: the result is put at the front of the list.
SimAppendFront ==
    /\ sim_pc = "loop"
    /\ pc = "done"
    /\ results' = <<returned>> \o results
    /\ pc' = "idle"
    /\ UNCHANGED <<config, executions, context, strategy_id, strategy, rule_list, acc,
                   pricing_result, constraint_list, safety, final_result, returned, calls,
                   mlvars, condvars, snapvars, sim_pc, sim_contexts, sim_strategy_id, checkvars>>

\* results.append(result)
SimAppend ==
    /\ sim_pc = "loop"
    /\ pc = "done"
    /\ results' = Append(results, returned)
    /\ pc' = "idle"
    /\ UNCHANGED <<config, executions, context, strategy_id, strategy, rule_list, acc,
                   pricing_result, constraint_list, safety, final_result, returned, calls,
                   mlvars, condvars, snapvars, sim_pc, sim_contexts, sim_strategy_id, checkvars>>

\* return results
SimReturn ==
    /\ sim_pc = "loop"
    /\ pc = "idle"
    /\ Len(results) = Len(sim_contexts)
    /\ sim_pc' = "returned"
    /\ UNCHANGED <<config, rulevars, calls, mlvars, condvars, snapvars, checkvars, sim_contexts,
                   sim_strategy_id, results>>

NextSimulate ==
    \/ \E contexts \in SeqsUpTo(SimContexts, MaxBatch), sid \in {NoId, "s9"} :
           SimulatePricing(contexts, sid)
    \/ SimEvaluate
    \/ GetApplicableRules
    \/ ApplyRuleStep
    \/ EnterSafety
    \/ CheckConstraintStep
    \/ LeaveSafety
    \/ \E written \in BOOLEAN : LogExecution(written)
    \/ Return
    \/ HandleException
    \/ SimAppend
    \/ SimReturn

SpecSimulate == InitSimulate /\ [][NextSimulate]_vars

----------------------------------------------------------------------------
(* Vocabulary of the properties.                                           *)

Finished == pc = "done"
StrategyFound == strategy # None
\* evaluate_pricing returned the result of _apply_safety_constraints.
ReturnedNormally == Finished /\ StrategyFound /\ ~safety.raised
\* evaluate_pricing returned from its exception handler.
ReturnedFailed == Finished /\ StrategyFound /\ safety.raised

\* The active constraints of the strategy of the call, in declaration order.
ActiveConstraints == ConstraintsQuery(constraints, strategy)

\* The predicate of each constraint type, stated on the price (section 4.4);
\* a price that is not positive has margin 0.
Complies(constraint, price, ctx) ==
    LET t == constraint.threshold
    IN  CASE constraint.constraint_type = "min_margin" ->
                 IF RLt(R(0), price)
                 THEN RLe(RMul(t, price), RSub(price, ctx.cost))
                 ELSE RLe(t, R(0))
          [] constraint.constraint_type = "max_price_change" ->
                 RLe(RAbs(RSub(price, ctx.current_price)), RMul(t, ctx.current_price))
          [] constraint.constraint_type = "min_price" -> RLe(t, price)
          [] constraint.constraint_type = "max_price" -> RLe(price, t)
          [] OTHER -> TRUE

\* The warnings the enforcer added to those of the pipeline.
EnforcerWarnings(result) ==
    SubSeq(result.warnings, Len(pricing_result.warnings) + 1, Len(result.warnings))

HasWarning(result, kind) ==
    \E i \in DOMAIN result.warnings : result.warnings[i][1] = kind

----------------------------------------------------------------------------
(* C2: a result returned with safety_checks_passed = true has a new_price  *)
(* that satisfies every active safety constraint of the strategy, checked  *)
(* against the original context, for any rules and any constraint order.   *)
C2_PassedMeansCompliant ==
    (Finished /\ StrategyFound /\ returned.safety_checks_passed) =>
        \A i \in DOMAIN ActiveConstraints :
            Complies(ActiveConstraints[i], returned.new_price, context)

\* A rule moved the price and two active constraints accepted it.
C2_Witness ==
    /\ ReturnedNormally
    /\ returned.safety_checks_passed
    /\ Len(ActiveConstraints) >= 2
    /\ returned.rules_applied # <<>>
    /\ returned.new_price # context.current_price

----------------------------------------------------------------------------
(* C3: whenever a min_margin constraint with action block is active, at    *)
(* any position among the active constraints, the returned new_price       *)
(* either satisfies it, (new_price - cost)/new_price >= threshold, or      *)
(* equals current_price.                                                   *)
C3_MarginBlockHolds ==
    (Finished /\ StrategyFound) =>
        \A i \in DOMAIN ActiveConstraints :
            LET c == ActiveConstraints[i]
            IN  (c.constraint_type = "min_margin" /\ c.action = "block") =>
                    \/ Complies(c, returned.new_price, context)
                    \/ returned.new_price = context.current_price

(* C4: whenever a max_price_change constraint with action adjust is        *)
(* active, at any position among the active constraints, the returned      *)
(* new_price has |new_price - current_price| / current_price <= threshold. *)
C4_ChangeAdjustHolds ==
    (Finished /\ StrategyFound) =>
        \A i \in DOMAIN ActiveConstraints :
            LET c == ActiveConstraints[i]
            IN  (c.constraint_type = "max_price_change" /\ c.action = "adjust") =>
                    Complies(c, returned.new_price, context)

(* C5: a block is final: once a constraint with action block was violated  *)
(* in _apply_safety_constraints, the returned new_price is current_price   *)
(* and safety_checks_passed is false, whatever constraints follow.         *)
C5_BlockIsFinal ==
    (Finished /\ StrategyFound /\ HasWarning(safety, "blocked")) =>
        /\ returned.new_price = context.current_price
        /\ ~returned.safety_checks_passed

----------------------------------------------------------------------------
NextCheck == _check_safety_constraint(Head(constraint_list), safety.new_price, context)

----------------------------------------------------------------------------
\* A sequence without its k-th element.
Without(q, k) == SubSeq(q, 1, k - 1) \o SubSeq(q, k + 1, Len(q))

\* The running price when the k-th active constraint is checked.
PriceAt(k) ==
    SafetyFold(SafetyStart(pricing_result), SubSeq(ActiveConstraints, 1, k - 1),
               context).new_price

\* The k-th active constraint has action warn and its check reports a violation.
WarnViolatedAt(k) ==
    LET c == ActiveConstraints[k]
        res == _check_safety_constraint(c, PriceAt(k), context)
    IN  c.action = "warn" /\ res.ok /\ ~res.passed

\* What the enforcer returns without the k-th active constraint.
ResultWithout(k) ==
    _apply_safety_constraints(pricing_result, context, Without(ActiveConstraints, k)).v

\* Two results agree on every field but warnings and safety_checks_passed.
SamePriceAndFrame(a, b) ==
    /\ a.new_price = b.new_price
    /\ a.confidence = b.confidence
    /\ a.reason = b.reason
    /\ a.rules_applied = b.rules_applied
    /\ a.metadata = b.metadata

\* Result a has the warnings of b and the one warning w.
OneMoreWarning(a, b, w) ==
    \E i \in DOMAIN a.warnings :
        a.warnings[i] = w /\ Without(a.warnings, i) = b.warnings

----------------------------------------------------------------------------
\* The rules _get_applicable_rules hands to _apply_rules for the call.
ApplicableRules ==
    {r \in rules : \E q \in _get_applicable_rules(rules, strategy, context) :
                       \E i \in DOMAIN q : q[i] = r}

\* The condition expression of a rule holds in the context of the call.
ConditionHolds(rule, ctx) ==
    \/ rule.condition = Empty
    \/ LET res == Eval(rule.condition, ConditionEvalContext(ctx))
       IN  res.ok /\ Truthy(res.v)

\* No rule set's conditions match, or no rule's condition holds.
NoRuleMatches == \A r \in ApplicableRules : ~ConditionHolds(r, context)

(* C8, as the specification states it: when no rule matches,               *)
(* evaluate_pricing returns new_price = current_price, confidence = 1.0    *)
(* and rules_applied = [].                                                 *)
C8_NoMatchKeepsPrice ==
    (Finished /\ StrategyFound /\ NoRuleMatches) =>
        /\ returned.new_price = context.current_price
        /\ returned.confidence = R(1)
        /\ returned.rules_applied = <<>>

\* current_price violates no active constraint whose action is adjust.
NoAdjustOnCurrentPrice ==
    \A i \in DOMAIN ActiveConstraints :
        ActiveConstraints[i].action = "adjust" =>
            Complies(ActiveConstraints[i], context.current_price, context)

(* C8, amended: when no rule matches, evaluate_pricing returns             *)
(* rules_applied = []; confidence = 1.0 unless a safety check raises (then *)
(* the failed result: current_price, confidence 0.0); and new_price =      *)
(* current_price unless current_price itself violates an active constraint *)
(* with action adjust.                                                     *)
C8_NoMatchUpToSafety ==
    (Finished /\ StrategyFound /\ NoRuleMatches) =>
        /\ returned.rules_applied = <<>>
        /\ ReturnedNormally => returned.confidence = R(1)
        /\ ReturnedFailed => /\ returned.confidence = R(0)
                             /\ returned.new_price = context.current_price
        /\ (ReturnedNormally /\ NoAdjustOnCurrentPrice) =>
               returned.new_price = context.current_price

\* A stored rule reached _apply_rules, its condition did not hold, and two
\* constraints were checked against the untouched current price.
C8_Witness ==
    /\ ReturnedNormally
    /\ NoRuleMatches
    /\ ApplicableRules # {}
    /\ Len(ActiveConstraints) = 2
    /\ NoAdjustOnCurrentPrice
    /\ returned.new_price = context.current_price
    /\ returned.confidence = R(1)

----------------------------------------------------------------------------
\* The selector of the call names no active strategy of the organization,
\* or is empty while the organization has no active default strategy.
NoActiveStrategy ==
    IF strategy_id # NoId
    THEN ~\E s \in strategies : /\ s.id = strategy_id
                                /\ s.organization = Organization
                                /\ s.is_active
    ELSE ~\E s \in strategies : /\ s.organization = Organization
                                /\ s.is_active
                                /\ s.is_default

(* C9: when no active strategy is found, evaluate_pricing returns          *)
(* new_price = current_price, confidence = 0.0, safety_checks_passed =     *)
(* false and rules_applied = [], and applies no rule and no constraint.    *)
C9_NoStrategyResult ==
    (Finished /\ NoActiveStrategy) =>
        /\ returned.new_price = context.current_price
        /\ returned.confidence = R(0)
        /\ ~returned.safety_checks_passed
        /\ returned.rules_applied = <<>>
        /\ calls = <<"evaluate_pricing", "_get_strategy">>
        /\ acc = None
        /\ safety = None

\* The default strategy is stored but inactive, and rules and constraints
\* that would have changed the price are stored for it.
C9_Witness ==
    /\ Finished
    /\ NoActiveStrategy
    /\ strategy_id = NoId
    /\ \E s \in strategies : s.organization = Organization /\ s.is_default
    /\ \E r \in rules : r.name = "undercut"
    /\ Len(constraints) > Len(FixedConstraints)
    /\ returned = NoStrategyResult(context)

----------------------------------------------------------------------------
\* The condition expression, or the action-value expression, of the rule
\* fails to evaluate in the context.
ExpressionFails(rule, ctx) ==
    \/ /\ rule.condition # Empty
       /\ ~Eval(rule.condition, ConditionEvalContext(ctx)).ok
    \/ /\ ConditionHolds(rule, ctx)
       /\ rule.action_value # Empty
       /\ ~Eval(rule.action_value, ActionEvalContext(ctx)).ok

(* C10: a rule whose condition or action-value expression fails to         *)
(* evaluate is skipped with a warning without aborting the pipeline: it    *)
(* is not in rules_applied, the returned warnings hold an entry for it,    *)
(* and the rules after it are still evaluated.                             *)
C10_FailedRuleWarns ==
    ReturnedNormally =>
        \A r \in ApplicableRules :
            ExpressionFails(r, context) =>
                /\ \A i \in DOMAIN returned.rules_applied : returned.rules_applied[i] # r.name
                /\ \E i \in DOMAIN returned.warnings :
                       returned.warnings[i] = <<"rule_failed", r.name>>

\* C1: every price the ML optimizer (optimize_price_with_constraints or its
\* predict_optimal_price fallback) hands to its caller has passed
\* _apply_safety_constraints first.
MLReturned == mlpc = "returned"

C1_MLPricePassesEnforcer ==
    MLReturned => \E i \in DOMAIN calls : calls[i] = "_apply_safety_constraints"

----------------------------------------------------------------------------
\* The rule set a rule belongs to.
RuleSetOf(rule) == CHOOSE rs \in RuleSets : rs.name = rule.rule_set

\* Python's order of the rule names in use (str comparison).
RuleNames ==
    << "bad_weight", "broken_action", "broken_cond", "clearance", "dormant",
       "inactive", "match", "no_value", "odd_type", "promo", "undercut",
       "zero_price" >>

NameRank(name) == CHOOSE i \in DOMAIN RuleNames : RuleNames[i] = name

\* (a.rule_set.priority, a.priority, a.name) <= (b.rule_set.priority, b.priority, b.name)
SortKeyLe(a, b) ==
    LET pa == RuleSetOf(a).priority
        pb == RuleSetOf(b).priority
    IN  \/ pa < pb
        \/ pa = pb /\ a.priority < b.priority
        \/ pa = pb /\ a.priority = b.priority /\ NameRank(a.name) <= NameRank(b.name)

(* C11: the list returned by _get_applicable_rules is ordered by RuleSet   *)
(* priority, then Rule priority, then Rule name: any rule before another   *)
(* in the list has the lexicographically smaller or equal key.  The rules  *)
(* still to be applied are a suffix of that list.                          *)
C11_OrderedByKey ==
    pc = "apply_rules" =>
        \A i, j \in DOMAIN rule_list : i < j => SortKeyLe(rule_list[i], rule_list[j])

----------------------------------------------------------------------------
\* What evaluate_pricing returns, for the context and strategy of the call,
\* when _get_applicable_rules hands it the list q.
EvaluationOver(q) ==
    LET checked == _apply_safety_constraints(_apply_rules(q, context), context,
                                             ActiveConstraints)
    IN  IF checked.ok THEN checked.v ELSE ErrorResult(context, "DivisionByZero")

(* C12: rule ordering is deterministic.  Any second run of evaluate_pricing *)
(* on the same context against the same rule sets, rules and constraints,  *)
(* whatever order the store returns rows of equal priority in, yields the  *)
(* rules_applied and the new_price of the run that has just returned.      *)
C12_SameResultOnRerun ==
    (Finished /\ StrategyFound) =>
        \A q \in _get_applicable_rules(rules, strategy, context) :
            /\ EvaluationOver(q).rules_applied = returned.rules_applied
            /\ EvaluationOver(q).new_price = returned.new_price

----------------------------------------------------------------------------
\* The value of the action expression of a rule in the context ctx.
ActionValue(rule, ctx) ==
    IF rule.action_value = Empty THEN R(0)
    ELSE LET res == Eval(rule.action_value, ActionEvalContext(ctx))
         IN  IF res.ok /\ res.v.t = "num" THEN res.v.v ELSE R(0)

\* A step of the loop of _apply_rules over the rule at the head of the list.
RuleStepTaken == pc = "apply_rules" /\ rule_list # <<>> /\ rule_list' = Tail(rule_list)

(* C13: in _apply_rules a rule is applied exactly when its condition holds *)
(* in the original context and its action value, computed from the         *)
(* original context, is not zero, whatever rules were applied before it    *)
(* and whatever the running price is; the value recorded for it is that    *)
(* of the original context.                                                *)
C13_ConditionsSeeOriginalContext ==
    [][RuleStepTaken =>
          LET rule == Head(rule_list)
              value == ActionValue(rule, context)
          IN  IF ConditionHolds(rule, context) /\ ~RIsZero(value)
              THEN /\ acc'.rules_applied = Append(acc.rules_applied, rule.name)
                   /\ acc'.reasons = Append(acc.reasons, <<rule.name, rule.action_type, value>>)
              ELSE acc' = acc]_vars

\* match set the running price to competitor_min, and undercut, whose
\* condition competitor_min < current_price is false of the running price,
\* was applied after it.
C13_Witness ==
    /\ pc = "apply_rules"
    /\ acc.rules_applied = <<"match", "undercut">>
    /\ \E r \in rules :
           /\ r.name = "undercut"
           /\ ConditionHolds(r, context)
           /\ ~ConditionHolds(r, [context EXCEPT
                                     !.current_price = RSeqMin(context.competitor_prices)])

----------------------------------------------------------------------------
\* The transform of each action type, as the specification lists them.
Transform(price, action_type, value) ==
    CASE action_type = "increase_percentage" ->
             RDiv(RMul(price, RAdd(R(100), value)), R(100))
      [] action_type = "decrease_percentage" ->
             RDiv(RMul(price, RSub(R(100), value)), R(100))
      [] action_type = "increase_amount" -> RAdd(price, value)
      [] action_type = "decrease_amount" -> RSub(price, value)
      [] action_type \in {"set_price", "match_competitor"} -> value
      [] action_type = "undercut_competitor" -> RDiv(RMul(value, R(99)), R(100))
      \* an action type the claim does not name leaves the price as it is
      [] OTHER -> price

\* The left fold of Transform over the applied rules, each recorded as
\* <<name, action_type, value>>, in list order.
RECURSIVE FoldTransforms(_, _)
FoldTransforms(price, applied) ==
    IF applied = <<>> THEN price
    ELSE FoldTransforms(Transform(price, Head(applied)[2], Head(applied)[3]),
                        Tail(applied))

\* _apply_rules is running or has returned.
InOrPastApplyRules == StrategyFound /\ pc \notin {"idle", "get_rules"}

(* C14: the price of _apply_rules is the left fold, from current_price and *)
(* over the applied rules in list order, of the transforms price*(1 +-     *)
(* value/100), price +- value, value (set_price, match_competitor) and     *)
(* value*0.99 (undercut_competitor); the price it returns is that fold     *)
(* over all the rules it applied.                                          *)
C14_PriceIsFoldOfTransforms ==
    /\ InOrPastApplyRules =>
           acc.new_price = FoldTransforms(context.current_price, acc.reasons)
    /\ (StrategyFound /\ pricing_result # None) =>
           /\ pricing_result.new_price = FoldTransforms(context.current_price, acc.reasons)
           /\ (acc.reasons # <<>> /\ acc.reasons[Len(acc.reasons)][2] = "undercut_competitor") =>
                  pricing_result.new_price =
                      RMul(acc.reasons[Len(acc.reasons)][3], Rat(99, 100))

\* A percentage rule, an amount rule and undercut_competitor were applied
\* one after the other.
C14_Witness ==
    /\ pricing_result # None
    /\ Len(acc.reasons) >= 2
    /\ acc.reasons[Len(acc.reasons)][2] = "undercut_competitor"
    /\ acc.reasons[1][2] \in {"decrease_percentage", "increase_amount"}

----------------------------------------------------------------------------
(* C15: every PricingResult evaluate_pricing returns has a confidence in   *)
(* [0,1], for any applied rules and any weights in the rules' metadata.    *)
C15_ConfidenceInUnitInterval ==
    Finished => RLe(R(0), returned.confidence) /\ RLe(returned.confidence, R(1))

----------------------------------------------------------------------------
\* The call of _evaluate_rule_set_conditions has returned.
ConditionsEvaluated == cond_pc = "done"

\* The filter keys present in the rule set of the call.
PresentKeys == DOMAIN cond_rule_set.conditions

\* The match of one filter dimension, as section 4.2 states it.
KeyMatches(key) ==
    LET c == cond_rule_set.conditions
        ctx == cond_context
    IN  CASE key = "marketplace" -> ctx.marketplace \in c[key]
          [] key = "category" -> ctx.category \in c[key]
          [] key = "brand" -> ctx.brand \in c[key]
          [] key = "inventory_min" -> c[key] <= ctx.inventory_level
          [] key = "inventory_max" -> ctx.inventory_level <= c[key]
          [] key = "price_min" -> RLe(c[key], ctx.current_price)
          [] key = "price_max" -> RLe(ctx.current_price, c[key])

(* C16: _evaluate_rule_set_conditions returns true exactly when every      *)
(* filter key present in the conditions matches the context: the three     *)
(* allow-lists contain the context's value and inventory_level and         *)
(* current_price lie within their inclusive bounds; an absent key puts no  *)
(* constraint, and empty conditions always match.                          *)
C16_ConditionsAreConjunction ==
    ConditionsEvaluated =>
        /\ cond_result <=> \A key \in PresentKeys : KeyMatches(key)
        /\ PresentKeys = {} => cond_result

\* All seven keys are present and the context matches each, on a bound of
\* the inventory range and on a bound of the price range.
C16_Witness ==
    /\ ConditionsEvaluated
    /\ PresentKeys = ConditionKeys
    /\ cond_result
    /\ cond_context.inventory_level = 10
    /\ cond_context.current_price = R(30)

----------------------------------------------------------------------------
\* optimize_price_with_constraints has been called.
MLCalled == mlpc # "idle"

\* max(min_price, cost/(1 - min_margin)) of the call, for min_margin # 1.
EffectiveLowerBound ==
    LET for_margin == RDiv(ml_call.context.cost, RSub(R(1), ml_call.min_margin))
    IN  IF RLe(for_margin, ml_call.min_price) THEN ml_call.min_price ELSE for_margin

\* The call raised before it evaluated a candidate or looked up a model.
FailedAtEntry ==
    /\ mlpc = "raised"
    /\ calls = <<"optimize_price_with_constraints">>
    /\ models_cache = NoCache
    /\ ml_i = 0

(* C17: whenever the effective lower bound max(min_price,                  *)
(* cost/(1-min_margin)) exceeds max_price, optimize_price_with_constraints *)
(* fails with an error, returns no price and invokes no model; when the    *)
(* bound does not exceed max_price the call does not fail at that test.    *)
(* The bound is defined for min_margin # 1.                                *)
C17_InfeasibleFailsEarly ==
    (MLCalled /\ ml_call.min_margin # R(1)) =>
        IF RLt(ml_call.max_price, EffectiveLowerBound)
        THEN FailedAtEntry /\ ml_returned = Raise("ValueError")
        ELSE ~FailedAtEntry

\* The call of the example: min_price 10, max_price 20, cost 15,
\* min_margin 0.5, whose bound is 30.
C17_Witness ==
    /\ FailedAtEntry
    /\ ml_call.min_price = R(10)
    /\ ml_call.max_price = R(20)
    /\ ml_call.min_margin = Rat(1, 2)
    /\ ml_call.context.cost = R(15)
    /\ EffectiveLowerBound = R(30)

----------------------------------------------------------------------------
\* The candidate prices of the call: 20 evenly spaced prices from the
\* effective lower bound to max_price.
CandidateIndexes == 0..(NumCandidates - 1)

CandidatePrice(i) ==
    RAdd(EffectiveLowerBound,
         RDiv(RMul(R(i), RSub(ml_call.max_price, EffectiveLowerBound)),
              R(NumCandidates - 1)))

\* The demand and buy-box models the engine can load for the call.
LoadableModel(model_type) ==
    IF ml_models[model_type] # None /\ ml_models[model_type].file_exists
    THEN ml_models[model_type] ELSE None

\* Candidate i evaluates successfully: its demand is predicted and its
\* margin is defined.
Evaluates(i) == LoadableModel("demand_forecasting") # None /\ ~RIsZero(CandidatePrice(i))

BuyBoxProbabilityAt(i) ==
    IF LoadableModel("buy_box_prediction") = None THEN Rat(1, 2)
    ELSE LET p == Predict(LoadableModel("buy_box_prediction"), CandidatePrice(i))
         IN  IF RLt(p, R(0)) THEN R(0) ELSE IF RLt(R(1), p) THEN R(1) ELSE p

DemandAt(i) ==
    LET d == Predict(LoadableModel("demand_forecasting"), CandidatePrice(i))
    IN  IF RLt(d, R(0)) THEN R(0) ELSE d

\* 0.6*profit + 0.3*revenue + 0.1*100*buy_box_probability
ScoreAt(i) ==
    LET price == CandidatePrice(i)
        sales == RMul(DemandAt(i), BuyBoxProbabilityAt(i))
        profit == RMul(RSub(price, ml_call.context.cost), sales)
        revenue == RMul(price, sales)
    IN  RAdd(RAdd(RDiv(RMul(R(6), profit), R(10)), RDiv(RMul(R(3), revenue), R(10))),
             RMul(R(10), BuyBoxProbabilityAt(i)))

(* C18: when the range is feasible and at least one candidate evaluates    *)
(* successfully, optimize_price_with_constraints returns one of the 20     *)
(* evenly spaced candidates, whose score 0.6*profit + 0.3*revenue +        *)
(* 0.1*100*buy_box_probability is at least that of every other candidate   *)
(* that evaluated, with the candidate's buy-box probability as confidence  *)
(* (0.5 when no buy-box model is available).                               *)
C18_ReturnsBestCandidate ==
    (MLCalled /\ ml_call.min_margin # R(1)
       /\ ~RLt(ml_call.max_price, EffectiveLowerBound)
       /\ (\E i \in CandidateIndexes : Evaluates(i))
       /\ mlpc \in {"returned", "raised"}) =>
        /\ mlpc = "returned"
        /\ \E i \in CandidateIndexes :
               /\ Evaluates(i)
               /\ ml_returned.predicted_price = CandidatePrice(i)
               /\ ml_returned.confidence = BuyBoxProbabilityAt(i)
               /\ \A j \in CandidateIndexes : Evaluates(j) => RLe(ScoreAt(j), ScoreAt(i))

\* The best candidate lies strictly inside the grid: demand and buy-box
\* probability both fall with the price.
C18_Witness ==
    /\ mlpc = "returned"
    /\ LoadableModel("demand_forecasting") # None
    /\ LoadableModel("buy_box_prediction") # None
    /\ RLt(EffectiveLowerBound, ml_returned.predicted_price)
    /\ RLt(ml_returned.predicted_price, ml_call.max_price)

----------------------------------------------------------------------------
(* C19: whenever optimize_price_with_constraints returns a result, its     *)
(* predicted_price lies in [max(min_price, cost/(1-min_margin)),           *)
(* max_price], also when no candidate evaluates and the call falls back to *)
(* the price_optimization regression.                                      *)
C19_ReturnedPriceInRange ==
    MLReturned =>
        /\ RLe(EffectiveLowerBound, ml_returned.predicted_price)
        /\ RLe(ml_returned.predicted_price, ml_call.max_price)

----------------------------------------------------------------------------
\* _log_execution was entered and its write of the execution record raised.
LoggingFailed ==
    /\ \E i \in DOMAIN calls : calls[i] = "_log_execution"
    /\ executions = <<>>
    /\ pc \in {"return", "error", "done"}

\* The result evaluate_pricing returns when the write succeeds: that of
\* _apply_safety_constraints over the result of _apply_rules.
ResultWhenLogged == SafetyResult(pricing_result, safety)

(* C20: a logging failure never fails the evaluation nor changes its       *)
(* result: whether the write of the execution record succeeds or raises,   *)
(* evaluate_pricing returns the same new_price, confidence, rules_applied, *)
(* safety_checks_passed and warnings.                                      *)
C20_LoggingFailureIsHarmless ==
    /\ LoggingFailed => pc # "error"
    /\ (Finished /\ \E i \in DOMAIN calls : calls[i] = "_log_execution") =>
           /\ returned.new_price = ResultWhenLogged.new_price
           /\ returned.confidence = ResultWhenLogged.confidence
           /\ returned.rules_applied = ResultWhenLogged.rules_applied
           /\ returned.safety_checks_passed = ResultWhenLogged.safety_checks_passed
           /\ returned.warnings = ResultWhenLogged.warnings

\* The write raised after a rule was applied and a constraint was violated,
\* and the call returned the enforcer's result.
C20_Witness ==
    /\ Finished
    /\ LoggingFailed
    /\ returned.rules_applied # <<>>
    /\ returned.warnings # <<>>
    /\ returned = final_result

----------------------------------------------------------------------------
\* The call has read both its rules and its safety constraints.
ConfigurationRead == StrategyFound /\ pc \in {"check", "error", "log", "return", "done"}

(* C21: an evaluation in flight never observes a partially updated         *)
(* configuration: the rules and the safety constraints one call of         *)
(* evaluate_pricing uses come from a single configuration version.         *)
C21_SingleConfigurationVersion ==
    ConfigurationRead => rules_version = constraints_version

----------------------------------------------------------------------------
\* A new default of the type has been published.
Published(model_type) ==
    ml_models[model_type] # None /\ ml_models[model_type].version = "v2"

\* The loop of optimize_price_with_constraints is about to call
\* predict_demand, hence _get_model('demand_forecasting').
AboutToGetDemandModel == mlpc = "candidates" /\ ml_i < NumCandidates

(* C22: the model cache is invalidated when a new default model is         *)
(* published: every _get_model call made after the publication, on an      *)
(* engine that had cached the previous model, returns the new model.       *)
C22_CacheInvalidatedOnPublish ==
    (AboutToGetDemandModel /\ Published("demand_forecasting")) =>
        _get_model(models_cache, ml_models, "demand_forecasting")[1]
            = ml_models["demand_forecasting"]

----------------------------------------------------------------------------
\* The results evaluate_pricing(ctx, sid) may return under the stored
\* configuration (one per order the store may return the rules in).
evaluate_pricing(ctx, sid) ==
    LET strat == _get_strategy(strategies, sid)
    IN  IF strat = None THEN {NoStrategyResult(ctx)}
        ELSE { LET checked == _apply_safety_constraints(
                                  _apply_rules(q, ctx), ctx,
                                  ConstraintsQuery(constraints, strat))
               IN  IF checked.ok THEN checked.v ELSE ErrorResult(ctx, "DivisionByZero") :
               q \in _get_applicable_rules(rules, strat, ctx) }

\* The execution records the evaluation of the i-th context may write.
ExecutionsOf(i) ==
    LET strat == _get_strategy(strategies, sim_strategy_id)
    IN  IF strat = None THEN {}
        ELSE {RuleExecution(strat, results[i], sim_contexts[i])}

(* C23: simulate_pricing returns one result per context, in the order of   *)
(* the contexts, the i-th being what evaluate_pricing(contexts[i],         *)
(* strategy_id) returns; a failed evaluation does not stop those after it; *)
(* and nothing but the execution records of these evaluations is written.  *)
C23_SimulateIsMapOfEvaluate ==
    /\ sim_pc \in {"loop", "returned"} =>
           /\ Len(results) <= Len(sim_contexts)
           /\ \A i \in DOMAIN results :
                  results[i] \in evaluate_pricing(sim_contexts[i], sim_strategy_id)
           /\ \A k \in DOMAIN executions :
                  \E i \in DOMAIN sim_contexts :
                      /\ executions[k].product_id = sim_contexts[i].product_id
                      /\ i \in DOMAIN results => executions[k] \in ExecutionsOf(i)
    /\ sim_pc = "returned" => Len(results) = Len(sim_contexts)

\* The first evaluation failed in a safety check and the second, of another
\* context, returned normally with a rule applied.
C23_Witness ==
    /\ sim_pc = "returned"
    /\ Len(results) = 2
    /\ results[1] = ErrorResult(sim_contexts[1], "DivisionByZero")
    /\ results[2].rules_applied # <<>>
    /\ results[2].new_price # sim_contexts[2].current_price

----------------------------------------------------------------------------
\* The number of execution-record writes the call attempted.
WritesAttempted == Cardinality({i \in DOMAIN calls : calls[i] = "_log_execution"})

(* C24: every call of evaluate_pricing, whatever its outcome (rules        *)
(* applied, blocked, no strategy found, an error inside the pipeline),     *)
(* attempts exactly one execution-record write before it returns, whose    *)
(* original price is context.current_price and whose final price,          *)
(* confidence, rules applied, safety outcome and warnings are those of the *)
(* returned PricingResult.                                                 *)
C24_OneRecordPerEvaluation ==
    Finished =>
        /\ WritesAttempted = 1
        /\ \A k \in DOMAIN executions :
               /\ executions[k].original_price = context.current_price
               /\ executions[k].calculated_price = returned.new_price
               /\ executions[k].confidence_score = returned.confidence
               /\ executions[k].rules_applied = returned.rules_applied
               /\ executions[k].safety_checks_passed = returned.safety_checks_passed
               /\ executions[k].warnings = returned.warnings

----------------------------------------------------------------------------
(* The order of the safety constraints.  The query of                      *)
(* _apply_safety_constraints has no order_by and SafetyConstraint.Meta has *)
(* no ordering, so the store may return the active constraints in any      *)
(* order.  In Spec the variable constraints is the order the store returns *)
(* them; here it is the order they were declared, and the query returns    *)
(* any arrangement of the active ones.                                     *)

\* Every arrangement of the rows of a query result.
StoreOrders(q) ==
    { [i \in 1..Len(q) |-> q[p[i]]] : p \in Orders(1..Len(q)) }

InitStoreOrder ==
    /\ strategies \in StrategyTables
    /\ rules = {RuleNamed("undercut")} \cup FixedRules
    /\ \E declared \in SeqsUpTo(ConstraintCatalog, MaxConstraints) :
           constraints = declared \o FixedConstraints
    /\ EngineIdle
    /\ ml_models = [demand_forecasting |-> None, buy_box_prediction |-> None,
                    price_optimization |-> None]
    /\ MLEngineIdle
    /\ ConditionsIdle
    /\ SnapshotIdle
    /\ SimulateIdle
    /\ CheckIdle

\* The call of _apply_safety_constraints, with an unordered query.
EnterSafetyAnyOrder ==
    /\ pc = "apply_rules"
    /\ rule_list = <<>>
    /\ pricing_result' = RulesResult(acc)
    /\ constraint_list' \in StoreOrders(ConstraintsQuery(constraints, strategy))
    /\ safety' = SafetyStart(pricing_result')
    /\ pc' = "check"
    /\ calls' = Append(calls, "_apply_safety_constraints")
    /\ UNCHANGED <<config, executions, context, strategy_id, strategy, rule_list, acc,
                   final_result, returned>>
    /\ constraints_version' = version
    /\ UNCHANGED <<mlvars, condvars, simvars, checkvars, version, rules_version>>

NextStoreOrder ==
    \/ \E ctx \in Contexts, sid \in StrategyIds : EvaluatePricing(ctx, sid)
    \/ GetApplicableRules
    \/ ApplyRuleStep
    \/ EnterSafetyAnyOrder
    \/ CheckConstraintStep
    \/ LeaveSafety
    \/ \E written \in BOOLEAN : LogExecution(written)
    \/ Return
    \/ HandleException

SpecStoreOrder == InitStoreOrder /\ [][NextStoreOrder]_vars

\* C25: safety enforcement is a fold over the active constraints in
\* declaration order, starting from the final candidate price of the rule
\* pipeline: the result evaluate_pricing returns is the result of that fold,
\* on every evaluation.
C25_FoldInDeclarationOrder ==
    ReturnedNormally =>
        final_result = SafetyResult(pricing_result,
                           SafetyFold(SafetyStart(pricing_result), ActiveConstraints, context))

----------------------------------------------------------------------------
(* _check_safety_constraint called on its own, as the unit tests call it.  *)

\* The constraints handed to the check: each type at several thresholds.
CheckConstraints ==
    { SafetyConstraint("c", "s1", "min_margin", t, "adjust", TRUE) :
          t \in {Rat(1, 10), Rat(3, 10), R(1)} }
    \cup { SafetyConstraint("c", "s1", "max_price_change", t, "adjust", TRUE) :
          t \in {R(0), Rat(1, 10), Rat(3, 10)} }
    \cup { SafetyConstraint("c", "s1", type, t, "adjust", TRUE) :
          type \in {"min_price", "max_price"}, t \in {R(18), R(25)} }

\* The candidate prices handed to the check: what the rule pipeline can leave,
\* a price of zero (decrease_percentage 100) or below (decrease_amount)
\* included.
CheckPrices ==
    {R(-5), R(0), R(15), Rat(50, 3), R(18), R(19), R(20), R(22), R(25), R(30),
     R(33), R(36)}

InitConstraintCheck ==
    /\ strategies \in { t \in StrategyTables : \E s \in t : s.id = "s1" /\ s.is_active }
    /\ rules = FixedRules
    /\ constraints = FixedConstraints
    /\ EngineIdle
    /\ ml_models = [demand_forecasting |-> None, buy_box_prediction |-> None,
                    price_optimization |-> None]
    /\ MLEngineIdle
    /\ ConditionsIdle
    /\ SnapshotIdle
    /\ SimulateIdle
    /\ check_pc = "idle"
    /\ check_constraint \in CheckConstraints
    /\ check_price \in CheckPrices
    /\ check_context \in SimContexts
    /\ check_result = None

CheckSafetyConstraint ==
    /\ check_pc = "idle"
    /\ check_result' = _check_safety_constraint(check_constraint, check_price, check_context)
    /\ check_pc' = "done"
    /\ UNCHANGED <<config, rulevars, calls, mlvars, condvars, snapvars, simvars,
                   check_constraint, check_price, check_context>>

NextConstraintCheck == CheckSafetyConstraint

SpecConstraintCheck == InitConstraintCheck /\ [][NextConstraintCheck]_vars

\* The suggested price of each constraint type, stated on the price and the
\* context (section 4.4).
SuggestedPrice(constraint, price, ctx) ==
    LET t == constraint.threshold
    IN  CASE constraint.constraint_type = "min_margin" ->
                 RDiv(ctx.cost, RSub(R(1), t))
          [] constraint.constraint_type = "max_price_change" ->
                 IF RLt(ctx.current_price, price)
                 THEN RMul(ctx.current_price, RAdd(R(1), t))
                 ELSE RMul(ctx.current_price, RSub(R(1), t))
          [] OTHER -> t

\* C26: _check_safety_constraint reports (it does not raise), reports passed
\* exactly when the predicate of the constraint holds on the price, and for a
\* violation suggests the price of the constraint type, which itself
\* satisfies the constraint.
C26_CheckReportsPredicate ==
    check_pc = "done" =>
        /\ check_result.ok
        /\ check_result.passed <=> Complies(check_constraint, check_price, check_context)
        /\ ~check_result.passed =>
               /\ check_result.suggested_price
                      = SuggestedPrice(check_constraint, check_price, check_context)
               /\ Complies(check_constraint, check_result.suggested_price, check_context)

----------------------------------------------------------------------------
\* C27: condition expressions and action-value expressions see the same
\* variable map: every variable of the map a rule's condition is evaluated
\* over is in the map its action value is evaluated over, with the same value.
C27_SameVariableMap ==
    context # None =>
        \A name \in DOMAIN ConditionEvalContext(context) :
            /\ name \in DOMAIN ActionEvalContext(context)
            /\ ActionEvalContext(context)[name] = ConditionEvalContext(context)[name]


----------------------------------------------------------------------------
\* C28: an exception raised inside evaluate_pricing is converted into a
\* returned result: a failed evaluation returns new_price == current_price,
\* confidence 0, no rule applied, safety_checks_passed false and one warning.
C28_FailureReturnsCurrentPrice ==
    ReturnedFailed =>
        /\ returned.new_price = context.current_price
        /\ returned.confidence = R(0)
        /\ returned.rules_applied = <<>>
        /\ ~returned.safety_checks_passed
        /\ Len(returned.warnings) = 1

\* A check raised after a rule had moved the candidate price away from
\* current_price, and evaluate_pricing returned.
C28_Witness ==
    /\ ReturnedFailed
    /\ pricing_result.new_price # context.current_price
    /\ pricing_result.rules_applied # <<>>

----------------------------------------------------------------------------
\* The action types _apply_price_adjustment knows.
KnownActionTypes ==
    {"increase_percentage", "decrease_percentage", "increase_amount", "decrease_amount",
     "set_price", "match_competitor", "undercut_competitor"}

\* C29: in each step of _apply_rules, a rule whose condition holds but whose
\* action value is empty, fails to evaluate or is 0 changes nothing of the
\* running result, and a rule whose condition holds and whose value is not 0
\* is appended to rules_applied and has its numeric weight multiplied into
\* confidence, the price staying as it was when its action type is unknown.
C29_ZeroValueSkipsUnknownTypeCounts ==
    [][RuleStepTaken =>
          LET rule == Head(rule_list)
              value == ActionValue(rule, context)
              weight == RuleWeight(rule)
          IN  /\ ConditionHolds(rule, context) /\ RIsZero(value)
                     => /\ acc'.new_price = acc.new_price
                        /\ acc'.confidence = acc.confidence
                        /\ acc'.rules_applied = acc.rules_applied
                        /\ acc'.reasons = acc.reasons
              /\ ConditionHolds(rule, context) /\ ~RIsZero(value)
                     => /\ acc'.rules_applied = Append(acc.rules_applied, rule.name)
                        /\ IsNumeric(weight)
                               => acc'.confidence = RMul(acc.confidence, AsNum(weight))
                        /\ rule.action_type \notin KnownActionTypes
                               => acc'.new_price = acc.new_price
              /\ Len(acc'.rules_applied) > Len(acc.rules_applied)
                     => ConditionHolds(rule, context) /\ ~RIsZero(value)]_vars

\* _apply_rules has passed over a rule that sets the price to 0 and a rule
\* with no action value, and has listed a rule of unknown action type, halving
\* confidence and keeping the price.
C29_Witness ==
    /\ pc = "apply_rules"
    /\ rule_list = <<>>
    /\ acc.rules_applied = <<"clearance", "odd_type">>
    /\ acc.new_price = RSub(context.current_price, R(5))
    /\ acc.confidence = Rat(1, 2)

----------------------------------------------------------------------------
\* C30: _apply_safety_constraints changes only new_price,
\* safety_checks_passed and warnings: the other fields of its result are
\* those of the provisional result, whose warnings open the warnings of the
\* result, and the provisional result stays what _apply_rules returned.
C30_EnforcerFrame ==
    /\ pc = "check" => pricing_result = RulesResult(acc)
    /\ final_result # None =>
           /\ final_result.confidence = pricing_result.confidence
           /\ final_result.reason = pricing_result.reason
           /\ final_result.rules_applied = pricing_result.rules_applied
           /\ final_result.metadata = pricing_result.metadata
           /\ Len(pricing_result.warnings) <= Len(final_result.warnings)
           /\ SubSeq(final_result.warnings, 1, Len(pricing_result.warnings))
                  = pricing_result.warnings
           /\ pricing_result = RulesResult(acc)

\* The enforcer blocked the price two rules had produced, one of them with a
\* pipeline warning: the result carries both rules, the pipeline warning
\* and the warning of the block.
C30_Witness ==
    /\ ReturnedNormally
    /\ Len(pricing_result.rules_applied) = 2
    /\ pricing_result.warnings # <<>>
    /\ Len(returned.warnings) > Len(pricing_result.warnings)
    /\ returned.new_price = context.current_price
    /\ pricing_result.new_price # context.current_price
====
